---- MODULE Spec2Model ----
(***************************************************************************)
(* KVStash: a Bitcask-style key-value store.  An append-only log split     *)
(* into numbered segment files seg<N>.log, an in-memory index from key to  *)
(* the location of its latest record, tombstone deletes, and a compactor   *)
(* that rewrites the live records into a fresh database.                   *)
(*                                                                         *)
(* Strings are tuples of byte values.  A file is a sequence of slices      *)
(* [c, lo, hi]: the bytes lo..hi-1 of the content c that a WriteAt put     *)
(* there.  A content is a serialized metadata header (120 bytes, read back *)
(* field by field) or a tuple of payload bytes.  SHA-256 is modelled as an *)
(* injective function: a digest is the tuple it was computed from.         *)
(* A segment file name seg<N>.log is represented by its number N.          *)
(***************************************************************************)
EXTENDS Integers, Sequences, FiniteSets, TLC

VARIABLES
    disk,            \* directory path -> [exists, files: segment number -> file]
    up,              \* "up": a Store is open; "down": none; "failed": Open failed;
                     \* "dead": the process terminated on a fatal error
    index,           \* Store.index: key -> index entry
    writer,          \* Store.writer: [name, offset]
    activeLogCount,  \* records written to the active segment
    mem,             \* reference map: key -> value of the memory-only store
    ret,             \* what the last operation was and what it returned
    pre,             \* Get results and store fields saved before the last operation
    nops,            \* operations performed so far
    nfail,           \* injected write failures so far
    cpc,             \* compactor: position inside the compaction cycle
    sub,             \* compactor: the sub-store opened at TmpDBPath
    todo,            \* compactor: live keys still to copy / files still to copy
    ncyc,            \* compactor: cycles begun so far
    thr,             \* concurrent clients: per-thread position and locals
    hist             \* concurrent clients: completed and running operations

vars == <<disk, up, index, writer, activeLogCount, mem, ret, pre, nops, nfail,
          cpc, sub, todo, ncyc, thr, hist>>

compactVars == <<pre, cpc, sub, todo, ncyc>>
threadVars == <<thr, hist>>

-----------------------------------------------------------------------------
(* Program constants *)

MetadataSize == 120
MaxKeySize == 256
MaxValueSize == 1048576
MaxKeysPerSegment == 3
FlagDeleted == 0

DBPath == "db"
TmpDBPath == "tmp_db"
BackupDBPath == "bkp_db"
Paths == {DBPath, TmpDBPath, BackupDBPath}

-----------------------------------------------------------------------------
(* Bounds of the model *)

MaxOps == 4
MaxFail == 1
MaxCycles == 2
MaxCompactOps == 3
MaxConcOps == 4
MaxDamageOps == 4
MaxRotateOps == 5
MaxLockOps == 2
MaxSwapOps == 3
MaxSegOps == 6
MaxEmptyOps == 3
NThreads == 3

\* keys "a", "b"; values "1", "333"
Keys == {<<97>>, <<98>>}
Values == {<<49>>, <<51, 51, 51>>}

-----------------------------------------------------------------------------
(* Generic helpers *)

None == "none"

Max(S) == CHOOSE x \in S : \A y \in S : y <= x

RECURSIVE Pow2(_)
Pow2(n) == IF n = 0 THEN 1 ELSE 2 * Pow2(n - 1)

-----------------------------------------------------------------------------
(* JSON payload: encoding/json on KVStashRequest{Key, Value} *)

JsonPre == <<123, 34, 107, 101, 121, 34, 58, 34>>                \* {"key":"
JsonMid == <<34, 44, 34, 118, 97, 108, 117, 101, 34, 58, 34>>    \* ","value":"
JsonSuf == <<34, 125>>                                           \* "}

\* a quote or a backslash inside a string is written with a backslash before it
RECURSIVE JsonEscape(_)
JsonEscape(s) ==
    IF s = <<>> THEN <<>>
    ELSE (IF Head(s) \in {34, 92} THEN <<92, Head(s)>> ELSE <<Head(s)>>)
         \o JsonEscape(Tail(s))

Marshal(req) ==
    JsonPre \o JsonEscape(req.Key) \o JsonMid \o JsonEscape(req.Value) \o JsonSuf

PayloadSize(k, v) == Len(Marshal([Key |-> k, Value |-> v]))

\* the string literal that starts at b[i] (after its opening quote):
\* [ok, s, next] with next the position after the closing quote
RECURSIVE ScanString(_, _, _)
ScanString(b, i, acc) ==
    IF i > Len(b) THEN [ok |-> FALSE, s |-> acc, next |-> i]
    ELSE IF b[i] = 34 THEN [ok |-> TRUE, s |-> acc, next |-> i + 1]
    ELSE IF b[i] < 32 THEN [ok |-> FALSE, s |-> acc, next |-> i]
    ELSE IF b[i] = 92 THEN
        IF i + 1 <= Len(b) /\ b[i + 1] \in {34, 92}
        THEN ScanString(b, i + 2, Append(acc, b[i + 1]))
        ELSE [ok |-> FALSE, s |-> acc, next |-> i]
    ELSE ScanString(b, i + 1, Append(acc, b[i]))

BadJson == [ok |-> FALSE, Key |-> <<>>, Value |-> <<>>]
NoString == [ok |-> FALSE, s |-> <<>>, next |-> 0]

\* ASCII letters in lower case: member names match without regard to case
Fold(s) == [i \in 1..Len(s) |-> IF s[i] \in 65..90 THEN s[i] + 32 ELSE s[i]]

\* the string literal whose opening quote is b[i]
StringAt(b, i) ==
    IF i <= Len(b) /\ b[i] = 34 THEN ScanString(b, i + 1, <<>>) ELSE NoString

\* the string literal after the colon that follows the member name n
TextAfter(b, n) ==
    IF n.ok /\ n.next <= Len(b) /\ b[n.next] = 58
    THEN StringAt(b, n.next + 1) ELSE NoString

\* the member of the given name: the later of the two wins, a missing one
\* leaves the field empty
Member(name, n1, v1, n2, v2) ==
    IF Fold(n2.s) = name THEN v2.s
    ELSE IF Fold(n1.s) = name THEN v1.s
    ELSE <<>>

\* the end of the object: } after the second member's text v2
UnmarshalEnd(b, n1, v1, n2, v2) ==
    IF ~v2.ok \/ v2.next # Len(b) THEN BadJson
    ELSE IF b[v2.next] # 125 THEN BadJson
    ELSE [ok |-> TRUE,
          Key |-> Member(<<107, 101, 121>>, n1, v1, n2, v2),
          Value |-> Member(<<118, 97, 108, 117, 101>>, n1, v1, n2, v2)]

\* the second member: a comma after the first member's text v1, then the
\* name n2 and its text
UnmarshalValue(b, n1, v1, n2) == UnmarshalEnd(b, n1, v1, n2, TextAfter(b, n2))

\* the first member: the name n1 and its text v1
UnmarshalKey(b, n1, v1) ==
    IF ~v1.ok \/ v1.next > Len(b) THEN BadJson
    ELSE IF b[v1.next] # 44 THEN BadJson
    ELSE UnmarshalValue(b, n1, v1, StringAt(b, v1.next + 1))

UnmarshalObject(b, n1) == UnmarshalKey(b, n1, TextAfter(b, n1))

\* json.Unmarshal into KVStashRequest of an object of two string members
Unmarshal(b) ==
    IF Len(b) = 0 THEN BadJson
    ELSE IF b[1] # 123 THEN BadJson
    ELSE UnmarshalObject(b, StringAt(b, 2))

-----------------------------------------------------------------------------
(* Record header: models.KVStashMetadata *)

\* SHA-256 as an injective function of the bytes hashed
Sha256(x) == x

\* fitFileName: the 32-byte zero-padded name; seg<N>.log is N, and every
\* N below 2^64 renders in at most 27 bytes, so the length check passes
fitFileName(name) == name

\* digests that leave the flags out
ComputeChecksum_NoFlags(offset, size, flags, fileName, data) ==
    [Offset |-> offset, Size |-> size, Flags |-> flags,
     SegmentFile |-> fitFileName(fileName),
     Checksum |-> Sha256(<<offset, size, fitFileName(fileName)>> \o data),
     MChecksum |-> Sha256(<<offset, size, fitFileName(fileName)>>
                          \o Sha256(<<offset, size, fitFileName(fileName)>> \o data))]

ComputeChecksum(offset, size, flags, fileName, data) ==
    LET fileNameBytes == fitFileName(fileName)
        valueChecksum == Sha256(<<offset, size, flags, fileNameBytes>> \o data)
        metadataChecksum ==
            Sha256(<<offset, size, flags, fileNameBytes>> \o valueChecksum)
    IN  [Offset |-> offset, Size |-> size, Flags |-> flags,
         SegmentFile |-> fileNameBytes,
         Checksum |-> valueChecksum, MChecksum |-> metadataChecksum]

\* flags: the set of bit positions to raise
RECURSIVE OrBits(_)
OrBits(S) == IF S = {} THEN 0
             ELSE LET i == CHOOSE x \in S : TRUE IN Pow2(i) + OrBits(S \ {i})

ComputeMetadataFlag(flags) == OrBits(flags)

GetMetadataFlagValue(m, flag) == (m.Flags \div Pow2(flag)) % 2 = 1

ValidateMChecksum(m) ==
    Sha256(<<m.Offset, m.Size, m.Flags, m.SegmentFile>> \o m.Checksum) = m.MChecksum

\* what a field reads as when its bytes come from different writes
BadInt == 0 - 1
BadSum == <<>>
NoMeta == [Offset |-> BadInt, Size |-> BadInt, Flags |-> BadInt,
           SegmentFile |-> BadInt, Checksum |-> BadSum, MChecksum |-> BadSum]

-----------------------------------------------------------------------------
(* Files: sequences of slices of written contents *)

MetaContent(m) == [t |-> "meta", m |-> m, b |-> <<>>]
DataContent(b) == [t |-> "data", m |-> NoMeta, b |-> b]
ZeroContent == [t |-> "zero", m |-> NoMeta, b |-> <<>>]

\* Serialize: the 120 bytes of a header
Serialize(m) == <<[c |-> MetaContent(m), lo |-> 0, hi |-> MetadataSize]>>

DataSlices(b) == IF b = <<>> THEN <<>>
                 ELSE <<[c |-> DataContent(b), lo |-> 0, hi |-> Len(b)]>>

RECURSIVE FLen(_)
FLen(f) == IF f = <<>> THEN 0 ELSE (Head(f).hi - Head(f).lo) + FLen(Tail(f))

RECURSIVE FTake(_, _)
FTake(f, n) ==
    IF n <= 0 \/ f = <<>> THEN <<>>
    ELSE LET s == Head(f)
             l == s.hi - s.lo
         IN  IF l <= n THEN <<s>> \o FTake(Tail(f), n - l)
             ELSE <<[s EXCEPT !.hi = s.lo + n]>>

RECURSIVE FDrop(_, _)
FDrop(f, n) ==
    IF f = <<>> THEN <<>>
    ELSE IF n <= 0 THEN f
    ELSE LET s == Head(f)
             l == s.hi - s.lo
         IN  IF l <= n THEN FDrop(Tail(f), n - l)
             ELSE <<[s EXCEPT !.lo = s.lo + n]>> \o Tail(f)

\* adjacent slices of one content with adjoining byte ranges are one slice
RECURSIVE Norm(_)
Norm(f) ==
    IF f = <<>> THEN <<>>
    ELSE IF Head(f).hi = Head(f).lo THEN Norm(Tail(f))
    ELSE IF Len(f) = 1 THEN f
    ELSE LET a == f[1]
             b == f[2]
         IN  IF b.hi = b.lo THEN Norm(<<a>> \o Tail(Tail(f)))
             ELSE IF a.c = b.c /\ a.hi = b.lo
             THEN Norm(<<[a EXCEPT !.hi = b.hi]>> \o Tail(Tail(f)))
             ELSE <<a>> \o Norm(Tail(f))

\* os.File.ReadAt / sequential Read: up to n bytes from position off
FRead(f, off, n) == FTake(FDrop(f, off), n)

\* os.File.WriteAt: the bytes of d replace those at off; a gap reads as zeros
WriteAt(f, off, d) ==
    LET gap == off - FLen(f)
        pad == IF gap > 0 THEN <<[c |-> ZeroContent, lo |-> 0, hi |-> gap]>>
               ELSE <<>>
    IN  Norm(FTake(f, off) \o pad \o d \o FDrop(f, off + FLen(d)))

\* the byte values of a read; header and zero bytes are not JSON text
RECURSIVE Bytes(_)
Bytes(r) ==
    IF r = <<>> THEN <<>>
    ELSE LET s == Head(r) IN
         (IF s.c.t = "data" THEN SubSeq(s.c.b, s.lo + 1, s.hi)
          ELSE [i \in 1..(s.hi - s.lo) |-> 0])
         \o Bytes(Tail(r))

\* the slices of r (r starting at position pos) that overlap bytes a..b-1
RECURSIVE Covering(_, _, _, _)
Covering(r, pos, a, b) ==
    IF r = <<>> THEN <<>>
    ELSE LET s == Head(r)
             e == pos + (s.hi - s.lo)
         IN  (IF e > a /\ pos < b
              THEN <<[c |-> s.c, shift |-> s.lo - pos]>> ELSE <<>>)
             \o Covering(Tail(r), e, a, b)

\* a header field read from bytes a..b-1 of the 120 bytes r
\* the field's value when every slice under it is a header written at the
\* same position and all of them agree on the field
FieldOf(cov, f, bad) ==
    IF /\ cov # <<>>
       /\ \A i \in 1..Len(cov) : cov[i].c.t = "meta" /\ cov[i].shift = 0
       /\ \A j \in 1..Len(cov) : cov[j].c.m[f] = cov[1].c.m[f]
    THEN cov[1].c.m[f]
    ELSE bad

Field(r, a, b, f, bad) == FieldOf(Covering(r, 0, a, b), f, bad)

\* Deserialize: [ok, m]; fails unless exactly MetadataSize bytes are given
Deserialize(r) ==
    IF FLen(r) # MetadataSize THEN [ok |-> FALSE, m |-> NoMeta]
    ELSE [ok |-> TRUE,
          m |-> [Offset      |-> Field(r, 0, 8, "Offset", BadInt),
                 Size        |-> Field(r, 8, 16, "Size", BadInt),
                 Flags       |-> Field(r, 16, 24, "Flags", BadInt),
                 SegmentFile |-> Field(r, 24, 56, "SegmentFile", BadInt),
                 Checksum    |-> Field(r, 56, 88, "Checksum", BadSum),
                 MChecksum   |-> Field(r, 88, 120, "MChecksum", BadSum)]]

-----------------------------------------------------------------------------
(* Directories *)

EmptyFiles == [n \in {} |-> <<>>]
AbsentDir == [exists |-> FALSE, files |-> EmptyFiles]
EmptyDir == [exists |-> TRUE, files |-> EmptyFiles]

Segs(dir) == DOMAIN dir.files

PutFile(dir, n, f) ==
    [exists |-> TRUE,
     files |-> [x \in Segs(dir) \cup {n} |-> IF x = n THEN f ELSE dir.files[x]]]

\* os.MkdirAll
MkdirAll(dir) == IF dir.exists THEN dir ELSE EmptyDir

\* os.OpenFile(O_CREATE): the file exists afterwards, its bytes untouched
CreateFile(dir, n) == IF n \in Segs(dir) THEN dir ELSE PutFile(dir, n, <<>>)

-----------------------------------------------------------------------------
(* LogWriter *)

\* newLogWriter: open (creating) the file, resume at its current size
\* a writer that is always opened on the first segment
newLogWriter_First(dir, activeLog) ==
    [name |-> 0, offset |-> FLen(CreateFile(dir, 0).files[0])]

newLogWriter(dir, activeLog) ==
    [name |-> activeLog, offset |-> FLen(CreateFile(dir, activeLog).files[activeLog])]

\* a writer that keeps the provisional advance after a failed payload write
RollbackOffset_Kept(offset) == offset

\* the rollback of the provisional advance after a failed payload write
RollbackOffset(offset) == offset - MetadataSize

\* LogWriter.Write on file f; out.h and out.p are the byte counts the two
\* WriteAt calls report.  [ok, m, file, offset]
\* the second WriteAt of Write: the payload at valueOffset of f1, the file
\* that holds the whole header
WritePayload(lw, f1, data, metadata, out) ==
    IF out.p # metadata.Size
    THEN [ok |-> FALSE, m |-> metadata,
          file |-> WriteAt(f1, metadata.Offset, FTake(DataSlices(data), out.p)),
          offset |-> RollbackOffset(lw.offset + MetadataSize)]
    ELSE [ok |-> TRUE, m |-> metadata,
          file |-> WriteAt(f1, metadata.Offset, FTake(DataSlices(data), out.p)),
          offset |-> lw.offset + MetadataSize + out.p]

\* a Write that moves the offset past the bytes of a header cut short
WriteHeader_Advances(lw, f, data, metadata, out) ==
    IF out.h # MetadataSize
    THEN [ok |-> FALSE, m |-> metadata,
          file |-> WriteAt(f, lw.offset, FTake(Serialize(metadata), out.h)),
          offset |-> lw.offset + out.h]
    ELSE WritePayload(lw, WriteAt(f, lw.offset, Serialize(metadata)), data,
                      metadata, out)

\* the first WriteAt of Write: the header at metaDataOffset
WriteHeader(lw, f, data, metadata, out) ==
    IF out.h # MetadataSize
    THEN [ok |-> FALSE, m |-> metadata,
          file |-> WriteAt(f, lw.offset, FTake(Serialize(metadata), out.h)),
          offset |-> lw.offset]
    ELSE WritePayload(lw, WriteAt(f, lw.offset, Serialize(metadata)), data,
                      metadata, out)

Write(lw, f, data, flags, out) ==
    WriteHeader(lw, f, data,
                ComputeChecksum(lw.offset + MetadataSize, Len(data),
                                ComputeMetadataFlag(flags), lw.name, data),
                out)

\* the byte counts a write of a payload of the given size can report:
\* complete, header cut short, payload cut short
HdrCuts == {56}
PayCuts(size) == {size - 1}
OkOut(size) == [h |-> MetadataSize, p |-> size]
FailOuts(size) == {[h |-> c, p |-> 0] : c \in HdrCuts}
                  \cup {[h |-> MetadataSize, p |-> c] : c \in PayCuts(size)}

-----------------------------------------------------------------------------
(* Index *)

EmptyIndex == [k \in {} |-> 0]

\* an index that keeps the entry a key already has
IndexPut_KeepFirst(idx, key, e) ==
    [k \in DOMAIN idx \cup {key} |-> IF k \in DOMAIN idx THEN idx[k] ELSE e]

IndexPut(idx, key, e) ==
    [k \in DOMAIN idx \cup {key} |-> IF k = key THEN e ELSE idx[k]]

IndexDelete(idx, key) == [k \in DOMAIN idx \ {key} |-> idx[k]]

-----------------------------------------------------------------------------
(* Recovery scan *)

\* the payload size of a record whose key is one byte and whose value is empty
EmptySize == PayloadSize(<<97>>, <<>>)

\* a scan that takes a record with an empty value for a tombstone
ScannedDeleted_EmptyValue(m) ==
    GetMetadataFlagValue(m, FlagDeleted) \/ m.Size = EmptySize

\* the Deleted flag of a scanned record: bit FlagDeleted of its flag word
ScannedDeleted(m) == GetMetadataFlagValue(m, FlagDeleted)

\* readSegment from file position pos: [err, index, n] with n the records read
RECURSIVE readSegment(_, _, _, _, _)
RECURSIVE readMetadata(_, _, _, _, _, _)
RECURSIVE readValue(_, _, _, _, _, _)
RECURSIVE readEntry(_, _, _, _, _, _, _)
RECURSIVE indexEntry(_, _, _, _, _, _, _)
readSegment(f, pos, segment, idx, n) ==
    readMetadata(f, pos, segment, idx, n, FRead(f, pos, MetadataSize))

\* the header bytes buf read at pos: a clean end of file, a truncated
\* header, or a header to deserialize and validate
readMetadata(f, pos, segment, idx, n, buf) ==
    IF FLen(buf) = 0 THEN [err |-> FALSE, index |-> idx, n |-> n]
    ELSE IF FLen(buf) # MetadataSize THEN [err |-> TRUE, index |-> idx, n |-> n]
    ELSE readValue(f, pos, segment, idx, n, Deserialize(buf).m)

\* the payload that follows a header
readValue(f, pos, segment, idx, n, metadata) ==
    IF ~ValidateMChecksum(metadata) THEN [err |-> TRUE, index |-> idx, n |-> n]
    ELSE readEntry(f, pos, segment, idx, n, metadata,
                   FRead(f, pos + MetadataSize, metadata.Size))

\* the record's key goes into the index and the scan moves on
readEntry(f, pos, segment, idx, n, metadata, dataBytes) ==
    IF FLen(dataBytes) # metadata.Size THEN [err |-> TRUE, index |-> idx, n |-> n]
    ELSE indexEntry(f, pos, segment, idx, n, metadata, Unmarshal(Bytes(dataBytes)))

indexEntry(f, pos, segment, idx, n, metadata, data) ==
    IF ~data.ok THEN [err |-> TRUE, index |-> idx, n |-> n]
    ELSE readSegment(f, pos + MetadataSize + metadata.Size, segment,
                     IndexPut(idx, data.Key,
                              [SegmentFile |-> segment,
                               Offset |-> metadata.Offset,
                               Size |-> metadata.Size,
                               Deleted |-> ScannedDeleted(metadata),
                               Checksum |-> metadata.Checksum]),
                     n + 1)

\* sort.Slice by segment number
RECURSIVE SortAsc(_)
SortAsc(S) == IF S = {} THEN <<>>
              ELSE LET m == CHOOSE x \in S : \A y \in S : x <= y
                   IN  <<m>> \o SortAsc(S \ {m})

\* getSegmentFiles: the segment files of the directory in ascending order
getSegmentFiles(dir) == SortAsc(Segs(dir))

\* an active segment that is seg1.log when the directory has no segment
ActiveLog_One(dir) == IF Segs(dir) = {} THEN 1 ELSE Max(Segs(dir))

\* the active segment: the highest-numbered one, seg0.log when there is none
ActiveLog(dir) == IF Segs(dir) = {} THEN 0 ELSE Max(Segs(dir))

\* buildIndex over segments[i..]: [err, index, n]; n counts the active
\* segment's records
RECURSIVE buildIndexFrom(_, _, _, _)
RECURSIVE scanned(_, _, _, _)
\* a buildIndex that gives up on an error in any segment, the active one too
scanned_AllFatal(dir, segments, i, r) ==
    IF r.err THEN [err |-> TRUE, index |-> EmptyIndex, n |-> 0]
    ELSE IF i = Len(segments)
    THEN [err |-> FALSE, index |-> r.index, n |-> r.n]
    ELSE buildIndexFrom(dir, segments, i + 1, r.index)

\* a buildIndex that goes on after an error in any segment
scanned_AllTolerated(dir, segments, i, r) ==
    IF i = Len(segments)
    THEN [err |-> FALSE, index |-> r.index, n |-> r.n]
    ELSE buildIndexFrom(dir, segments, i + 1, r.index)

buildIndexFrom(dir, segments, i, idx) ==
    IF i > Len(segments) THEN [err |-> FALSE, index |-> idx, n |-> 0]
    ELSE scanned(dir, segments, i,
                 readSegment(dir.files[segments[i]], 0, segments[i], idx, 0))

\* what buildIndex does with the result r of readSegment on segments[i]
scanned(dir, segments, i, r) ==
    IF r.err /\ segments[i] # ActiveLog(dir)
    THEN [err |-> TRUE, index |-> EmptyIndex, n |-> 0]
    ELSE IF i = Len(segments)
    THEN [err |-> FALSE, index |-> r.index, n |-> r.n]
    ELSE buildIndexFrom(dir, segments, i + 1, r.index)

buildIndex(dir) == buildIndexFrom(dir, getSegmentFiles(dir), 1, EmptyIndex)

-----------------------------------------------------------------------------
(* Database copy *)

\* a copy that leaves the destination file empty
copySegment_Empty(f) == <<>>

\* copySegment: the destination file holds the source's bytes
copySegment(f) == f

\* a copyDB that creates the destination and copies no file
copyDB_Empty(source) == EmptyDir

\* copyDB: the destination is removed, recreated and given every segment file
copyDB(source) ==
    [exists |-> TRUE, files |-> [n \in Segs(source) |-> copySegment(source.files[n])]]

-----------------------------------------------------------------------------
(* Store: a store is [dbPath, index, writer, activeLogCount] over the disk d *)

NoWriter == [name |-> -1, offset |-> -1]
NoStore == [dbPath |-> None, index |-> EmptyIndex, writer |-> NoWriter,
            activeLogCount |-> 0]

\* a startup that never looks at the backup
Restore_Never(d) == d

\* startup recovery: the database is missing and a backup exists
Restore(d) ==
    IF ~d[DBPath].exists /\ d[BackupDBPath].exists
    THEN [d EXCEPT ![DBPath] = copyDB(d[BackupDBPath]), ![BackupDBPath] = AbsentDir]
    ELSE d

\* NewStore after buildIndex returned b: an error, or a store with a writer
NewStoreWith(d1, dbPath, b) ==
    IF b.err THEN [ok |-> FALSE, disk |-> d1, st |-> NoStore]
    ELSE [ok |-> TRUE,
          disk |-> [d1 EXCEPT ![dbPath] = CreateFile(@, ActiveLog(d1[dbPath]))],
          st |-> [dbPath |-> dbPath, index |-> b.index,
                  writer |-> newLogWriter(d1[dbPath], ActiveLog(d1[dbPath])),
                  activeLogCount |-> b.n]]

\* NewStore once the directory exists: buildIndex, then the writer
NewStoreIn(d1, dbPath) == NewStoreWith(d1, dbPath, buildIndex(d1[dbPath]))

\* NewStore: [ok, disk, st]
NewStore(d, dbPath) == NewStoreIn([d EXCEPT ![dbPath] = MkdirAll(@)], dbPath)

\* Open of the main store: restore from the backup if needed, then NewStore
Open(d) == NewStore(Restore(d), DBPath)

\* a validation that also rejects a key or a value of exactly the maximum
Validate_Strict(req) ==
    IF Len(req.Key) = 0 THEN "ErrEmptyKey"
    ELSE IF Len(req.Key) >= MaxKeySize THEN "ErrKeyTooLarge"
    ELSE IF Len(req.Value) >= MaxValueSize THEN "ErrValueTooLarge"
    ELSE "ok"

\* the validation at the head of Set
Validate(req) ==
    IF Len(req.Key) = 0 THEN "ErrEmptyKey"
    ELSE IF Len(req.Key) > MaxKeySize THEN "ErrKeyTooLarge"
    ELSE IF Len(req.Value) > MaxValueSize THEN "ErrValueTooLarge"
    ELSE "ok"

\* rotation is due when the active segment holds MaxKeysPerSegment records
NeedRotate(st) == st.activeLogCount >= MaxKeysPerSegment

\* a rotation that leaves a number out
NextSegment_Skip(dir) == Max(Segs(dir)) + 2

\* the number of the segment a rotation creates
NextSegment(dir) == Max(Segs(dir)) + 1

\* rotation: close the writer, open a new active segment, reset the counter
Rotate(st, d) ==
    [st |-> [st EXCEPT !.writer = newLogWriter(d[st.dbPath], NextSegment(d[st.dbPath])),
                       !.activeLogCount = 0],
     disk |-> [d EXCEPT ![st.dbPath] = CreateFile(@, NextSegment(d[st.dbPath]))]]

\* the store and the disk after the Write that returned w
Appended(r, rot, w) ==
    [ok |-> w.ok,
     st |-> [r.st EXCEPT !.writer.offset = w.offset],
     disk |-> [r.disk EXCEPT ![r.st.dbPath] = PutFile(@, r.st.writer.name, w.file)],
     m |-> w.m, off0 |-> r.st.writer.offset, rot |-> rot]

\* the Write on the active segment of r.st over r.disk
AppendTo(r, rot, data, flags, out) ==
    Appended(r, rot,
             Write(r.st.writer, r.disk[r.st.dbPath].files[r.st.writer.name],
                   data, flags, out))

\* the writer part of a Set or Delete: rotate if due, then LogWriter.Write.
\* [ok, st, disk, m, off0, rot]
AppendRecord(st, d, data, flags, out) ==
    AppendTo(IF NeedRotate(st) THEN Rotate(st, d) ELSE [st |-> st, disk |-> d],
             NeedRotate(st), data, flags, out)

\* the index entry of a record just written
EntryOf(st, m, deleted) ==
    [SegmentFile |-> st.writer.name, Offset |-> m.Offset, Size |-> m.Size,
     Deleted |-> deleted, Checksum |-> m.Checksum]

\* the index part of a Set or Delete: store the entry, count the record
Commit(st, key, m, deleted) ==
    [st EXCEPT !.index = IndexPut(st.index, key, EntryOf(st, m, deleted)),
               !.activeLogCount = st.activeLogCount + 1]

\* an operation that returns before it writes: nothing changes
Rejected(st, d, res) ==
    [res |-> res, st |-> st, disk |-> d, m |-> NoMeta, off0 |-> -1, rot |-> FALSE]

\* the index update after the append a, whatever the append returned
Stored(a, key, deleted) ==
    [res |-> IF a.ok THEN "ok" ELSE "WriteFailed",
     st |-> Commit(a.st, key, a.m, deleted),
     disk |-> a.disk, m |-> a.m, off0 |-> a.off0, rot |-> a.rot]

\* the end of a Set or Delete after the append a: an error return when the
\* write failed, the index update when it succeeded
Finish(a, key, deleted) ==
    IF ~a.ok
    THEN [res |-> "WriteFailed", st |-> a.st, disk |-> a.disk, m |-> a.m,
          off0 |-> a.off0, rot |-> a.rot]
    ELSE Stored(a, key, deleted)

\* a Set that updates the index whether or not the write succeeded
Set_IndexAlways(st, d, req, out) ==
    IF Validate(req) # "ok" THEN Rejected(st, d, Validate(req))
    ELSE Stored(AppendRecord(st, d, Marshal(req), {}, out), req.Key, FALSE)

\* Store.Set: [res, st, disk, m, off0, rot]
Set(st, d, req, out) ==
    IF Validate(req) # "ok" THEN Rejected(st, d, Validate(req))
    ELSE Finish(AppendRecord(st, d, Marshal(req), {}, out), req.Key, FALSE)

\* a Delete that takes any entry, deleted or not, for a live one
Live_Present(idx, key) == key \in DOMAIN idx

\* whether Delete finds a live entry for the key
Live(idx, key) == key \in DOMAIN idx /\ ~idx[key].Deleted

\* the request a Delete writes: the key with an empty value
Tombstone(key) == [Key |-> key, Value |-> <<>>]

\* Store.Delete: [res, st, disk, m, off0, rot]
Delete(st, d, key, out) ==
    IF Validate(Tombstone(key)) # "ok" THEN Rejected(st, d, Validate(Tombstone(key)))
    ELSE IF ~Live(st.index, key) THEN Rejected(st, d, "ErrKeyNotFound")
    ELSE Finish(AppendRecord(st, d, Marshal(Tombstone(key)), {FlagDeleted}, out),
                key, TRUE)

ReadFailed == [res |-> "ReadFailed", value |-> <<>>]

\* the request parsed from the bytes read, and the checksum comparison
verified(fileName, offset, size, checksum, buf, data) ==
    IF ~data.ok THEN ReadFailed
    ELSE IF ComputeChecksum(offset, size, 0, fileName, buf).Checksum # checksum
    THEN [res |-> "ErrChecksumMismatch", value |-> <<>>]
    ELSE [res |-> "ok", value |-> data.Value]

\* the bytes buf read at the value's position: parsed, then checked
\* against the checksum of the index entry
fetched(fileName, offset, size, checksum, buf) ==
    IF Len(buf) # size THEN ReadFailed
    ELSE verified(fileName, offset, size, checksum, buf, Unmarshal(buf))

\* fetchValue: [res, value]
fetchValue(dir, fileName, offset, size, checksum) ==
    IF size <= 0 THEN ReadFailed
    ELSE IF offset < 0 THEN ReadFailed
    ELSE IF ~dir.exists \/ fileName \notin Segs(dir) THEN ReadFailed
    ELSE IF offset + size > FLen(dir.files[fileName]) THEN ReadFailed
    ELSE fetched(fileName, offset, size, checksum,
                 Bytes(FRead(dir.files[fileName], offset, size)))

NotFound == [res |-> "ErrKeyNotFound", value |-> <<>>]

\* the read of the record an index entry points at
Fetch(dir, entry) ==
    IF entry.Deleted THEN NotFound
    ELSE fetchValue(dir, entry.SegmentFile, entry.Offset, entry.Size, entry.Checksum)

\* Store.Get without its purge: [res, value]
GetValue(st, d, key) ==
    IF key \notin DOMAIN st.index THEN NotFound ELSE Fetch(d[st.dbPath], st.index[key])

\* the end of Get: a checksum mismatch purges the entry
Purge(st, key, g) ==
    [res |-> g.res, value |-> g.value,
     st |-> IF g.res = "ErrChecksumMismatch"
            THEN [st EXCEPT !.index = IndexDelete(st.index, key)] ELSE st]

\* Store.Get: [res, value, st]
Get(st, d, key) == Purge(st, key, GetValue(st, d, key))

-----------------------------------------------------------------------------
(* The running system: one main store at DBPath, its clients one at a time *)

Main == [dbPath |-> DBPath, index |-> index, writer |-> writer,
         activeLogCount |-> activeLogCount]

Adopt(st) ==
    /\ index' = st.index
    /\ writer' = st.writer
    /\ activeLogCount' = st.activeLogCount

\* the reference map's entry for a key: what the last successful Put or
\* Delete of the key was, and where its record was written
NoLoc == [seg |-> -1, off |-> -1, size |-> -1]
Absent == [state |-> "never", value |-> <<>>, loc |-> NoLoc]
LocOf(st, m) == [seg |-> st.writer.name, off |-> m.Offset, size |-> m.Size]
Written(state, v, st, m) == [state |-> state, value |-> v, loc |-> LocOf(st, m)]

\* what the last operation returned: res (and value, for a Get); for a Put
\* or Delete also off0, the writer's offset when its append began, and rot,
\* whether it rotated first; prev is the Put or Delete before it since the
\* store was opened
NoPrev == [op |-> None, res |-> None]
Ret(op, key, value, res, off0, rot, prev) ==
    [op |-> op, key |-> key, value |-> value, res |-> res, off0 |-> off0,
     rot |-> rot, prev |-> prev]

LastWrite(r) == IF r.op \in {"Put", "Delete"} THEN [op |-> r.op, res |-> r.res]
                ELSE r.prev

InitDisk == [p \in Paths |-> AbsentDir]

Idle == <<>>

Init ==
    /\ \E o \in {Open(InitDisk)} :
          /\ disk = o.disk
          /\ index = o.st.index
          /\ writer = o.st.writer
          /\ activeLogCount = o.st.activeLogCount
    /\ up = "up"
    /\ mem = [k \in Keys |-> Absent]
    /\ ret = Ret("Open", <<>>, <<>>, "ok", -1, FALSE, NoPrev)
    /\ pre = Idle
    /\ nops = 0
    /\ nfail = 0
    /\ cpc = "idle"
    /\ sub = NoStore
    /\ todo = {}
    /\ ncyc = 0
    /\ thr = Idle
    /\ hist = Idle

\* a client's Put(k, v) whose writes report the byte counts out
Put(k, v, out) ==
    /\ up = "up"
    /\ cpc = "idle"
    /\ nops < MaxOps
    /\ \E r \in {Set(Main, disk, [Key |-> k, Value |-> v], out)} :
       /\ Adopt(r.st)
       /\ disk' = r.disk
       /\ mem' = IF r.res = "ok"
                 THEN [mem EXCEPT ![k] = Written("put", v, r.st, r.m)] ELSE mem
       /\ ret' = Ret("Put", k, v, r.res, r.off0, r.rot, LastWrite(ret))
       /\ nfail' = IF r.res = "WriteFailed" THEN nfail + 1 ELSE nfail
    /\ nops' = nops + 1
    /\ UNCHANGED <<up, compactVars, threadVars>>

\* a client's Delete(k)
Del(k, out) ==
    /\ up = "up"
    /\ cpc = "idle"
    /\ nops < MaxOps
    /\ \E r \in {Delete(Main, disk, k, out)} :
       /\ Adopt(r.st)
       /\ disk' = r.disk
       /\ mem' = IF r.res = "ok"
                 THEN [mem EXCEPT ![k] = Written("deleted", <<>>, r.st, r.m)]
                 ELSE mem
       /\ ret' = Ret("Delete", k, <<>>, r.res, r.off0, r.rot, LastWrite(ret))
       /\ nfail' = IF r.res = "WriteFailed" THEN nfail + 1 ELSE nfail
    /\ nops' = nops + 1
    /\ UNCHANGED <<up, compactVars, threadVars>>

\* a client's Get(k)
GetKey(k) ==
    /\ up = "up"
    /\ cpc = "idle"
    /\ \E r \in {Get(Main, disk, k)} :
       /\ Adopt(r.st)
       /\ ret' = Ret("Get", k, r.value, r.res, -1, FALSE, LastWrite(ret))
    /\ UNCHANGED <<disk, up, mem, nops, nfail, compactVars, threadVars>>

\* the process ends and the store is opened again.  Close only closes the
\* writer's file and every write is synchronous (O_SYNC), so a clean Close
\* and a kill leave the same disk, and the memory state is rebuilt either way
Restart ==
    /\ up \in {"up", "failed"}
    /\ cpc = "idle"
    /\ \E o \in {Open(disk)} :
       /\ disk' = o.disk
       /\ up' = IF o.ok THEN "up" ELSE "failed"
       /\ Adopt(o.st)
       /\ ret' = Ret("Restart", <<>>, <<>>, IF o.ok THEN "ok" ELSE "OpenFailed",
                     -1, FALSE, NoPrev)
    /\ UNCHANGED <<mem, nops, nfail, compactVars, threadVars>>

PutOk == \E k \in Keys, v \in Values : Put(k, v, OkOut(PayloadSize(k, v)))

PutFail ==
    /\ nfail < MaxFail
    /\ \E k \in Keys, v \in Values :
          \E out \in FailOuts(PayloadSize(k, v)) : Put(k, v, out)

DelOk == \E k \in Keys : Del(k, OkOut(PayloadSize(k, <<>>)))

DelFail ==
    /\ nfail < MaxFail
    /\ \E k \in Keys : \E out \in FailOuts(PayloadSize(k, <<>>)) : Del(k, out)

GetAny == \E k \in Keys : GetKey(k)

Next == PutOk \/ PutFail \/ DelOk \/ DelFail \/ GetAny \/ Restart

Spec == Init /\ [][Next]_vars

-----------------------------------------------------------------------------
(* What a Get returns, now and in the next state *)

MainNext == [dbPath |-> DBPath, index |-> index', writer |-> writer',
             activeLogCount |-> activeLogCount']

Found(v) == [res |-> "ok", value |-> v]

\* what the memory-only map returns for a key
Expected(k) == IF mem[k].state = "put" THEN Found(mem[k].value) ELSE NotFound

GetNow(k) == GetValue(Main, disk, k)

-----------------------------------------------------------------------------
(* Requests at the limits of Set's validation.  pre records the sizes of
   the request of the last step. *)

\* a string of n bytes
Sized(n) == SubSeq([i \in 1..n |-> 97], 1, n)

KeyAtMax == Sized(MaxKeySize)
KeyOverMax == Sized(MaxKeySize + 1)
ValueAtMax == Sized(MaxValueSize)
ValueOverMax == Sized(MaxValueSize + 1)

LimitKeys == Keys \cup {<<>>, KeyAtMax, KeyOverMax}
LimitValues == Values \cup {<<>>, ValueAtMax, ValueOverMax}

SizesOf(k, v) == [klen |-> Len(k), vlen |-> Len(v)]

\* Set(k, v) by a client, every write complete
Submit(k, v, out) ==
    /\ up = "up"
    /\ nops < MaxOps
    /\ \E r \in {Set(Main, disk, [Key |-> k, Value |-> v], out)} :
       /\ Adopt(r.st)
       /\ disk' = r.disk
       /\ mem' = IF r.res = "ok" /\ k \in Keys
                 THEN [mem EXCEPT ![k] = Written("put", v, r.st, r.m)] ELSE mem
       /\ ret' = Ret("Put", <<>>, <<>>, r.res, r.off0, r.rot, LastWrite(ret))
    /\ pre' = SizesOf(k, v)
    /\ nops' = nops + 1
    /\ UNCHANGED <<up, nfail, cpc, sub, todo, ncyc, threadVars>>

\* a request of ordinary size
SubmitSmall == \E k \in Keys, v \in Values : Submit(k, v, OkOut(PayloadSize(k, v)))

\* a request that the validation turns away: Set returns before it writes
SubmitRejected ==
    \E k \in LimitKeys, v \in LimitValues :
        /\ Validate([Key |-> k, Value |-> v]) # "ok"
        /\ Submit(k, v, OkOut(0))

\* the validation at the head of Set alone, on a request of exactly the
\* maximum key or value size, which it lets pass
ValidateLarge ==
    /\ up = "up"
    /\ nops < MaxOps
    /\ \E k \in LimitKeys, v \in LimitValues :
        /\ Len(k) = MaxKeySize \/ Len(v) = MaxValueSize
        /\ Validate([Key |-> k, Value |-> v]) = "ok"
        /\ ret' = Ret("Validate", <<>>, <<>>, Validate([Key |-> k, Value |-> v]),
                      -1, FALSE, LastWrite(ret))
        /\ pre' = SizesOf(k, v)
    /\ nops' = nops + 1
    /\ UNCHANGED <<disk, up, index, writer, activeLogCount, mem, nfail, cpc, sub,
                   todo, ncyc, threadVars>>

NextValidate == SubmitSmall \/ SubmitRejected \/ ValidateLarge

SpecValidate == Init /\ [][NextValidate]_vars

-----------------------------------------------------------------------------
(* Damage to the segment files.  The store appends records, then bytes of
   one segment file are changed or cut off behind its back, and then the
   clients read and the store is reopened.  hist is the log of the records
   appended, in order; pre describes the damage. *)

\* the bytes a damaged byte can turn into: a quote, a letter
FlipTo == {34, 120}
\* the header bytes that can be damaged: in Offset, Checksum, MChecksum
HeaderFlips == {0, 60, 100}
\* where a record can be cut off: inside the header, after the header,
\* after the first byte of the payload
Cuts == {56, MetadataSize, MetadataSize + 1}
Garbage == <<1, 2, 3, 4, 5, 6, 7>>
\* the values written before the damage
DamageValues == {<<49>>}

RecordOf(op, k, v, r) ==
    [key |-> k, value |-> v, deleted |-> (op = "Delete"), seg |-> r.st.writer.name,
     hdr |-> r.m.Offset - MetadataSize, off |-> r.m.Offset, size |-> r.m.Size]

\* a Set or Delete that returned r with every write complete
LogWrite(op, k, v, r) ==
    /\ Adopt(r.st)
    /\ disk' = r.disk
    /\ mem' = [mem EXCEPT ![k] = Written(IF op = "Put" THEN "put" ELSE "deleted",
                                         v, r.st, r.m)]
    /\ hist' = Append(hist, RecordOf(op, k, v, r))
    /\ ret' = Ret(op, k, v, r.res, r.off0, r.rot, LastWrite(ret))
    /\ nops' = nops + 1
    /\ UNCHANGED <<up, pre, nfail, cpc, sub, todo, ncyc, thr>>

DPut ==
    /\ up = "up" /\ pre = Idle /\ nops < MaxDamageOps
    /\ \E k \in Keys, v \in DamageValues :
        \E r \in {Set(Main, disk, [Key |-> k, Value |-> v], OkOut(PayloadSize(k, v)))} :
           LogWrite("Put", k, v, r)

DDel ==
    /\ up = "up" /\ pre = Idle /\ nops < MaxDamageOps
    /\ \E k \in Keys :
        /\ Live(index, k)
        /\ \E r \in {Delete(Main, disk, k, OkOut(PayloadSize(k, <<>>)))} :
              LogWrite("Delete", k, <<>>, r)

\* whether the index entry of the record's key points at the record
Current(rec) ==
    /\ rec.key \in DOMAIN index
    /\ index[rec.key].SegmentFile = rec.seg
    /\ index[rec.key].Offset = rec.off
    /\ ~index[rec.key].Deleted

\* the file f of segment seg is replaced by g; the first bad byte lies in
\* the record whose header starts at position at of the segment
Damaged(kind, seg, at, key, current, g) ==
    /\ disk' = [disk EXCEPT ![DBPath] = PutFile(@, seg, g)]
    /\ pre' = [kind |-> kind, seg |-> seg, at |-> at, key |-> key,
               current |-> current, gets |-> 0, restarted |-> FALSE]
    /\ ret' = Ret("Damage", key, <<>>, "ok", -1, FALSE, LastWrite(ret))
    /\ UNCHANGED <<up, index, writer, activeLogCount, mem, nops, nfail, cpc, sub,
                   todo, ncyc, threadVars>>

\* the kind of damage a changed payload is: one the JSON decoder rejects,
\* or one only the digest shows
PayloadKind(g, rec) ==
    IF Unmarshal(Bytes(FRead(g, rec.off, rec.size))).ok THEN "value" ELSE "json"

FlipPayloadOf(rec, f, g) ==
    /\ Bytes(FRead(g, rec.off, rec.size)) # Bytes(FRead(f, rec.off, rec.size))
    /\ Damaged(PayloadKind(g, rec), rec.seg, rec.hdr, rec.key, Current(rec), g)

\* one byte of the payload of a record changes
FlipPayload ==
    /\ up = "up" /\ pre = Idle
    /\ \E i \in 1..Len(hist) : \E p \in 0..(hist[i].size - 1), x \in FlipTo :
          FlipPayloadOf(hist[i], disk[DBPath].files[hist[i].seg],
                        WriteAt(disk[DBPath].files[hist[i].seg], hist[i].off + p,
                                DataSlices(<<x>>)))

\* one byte of the header of a record changes
FlipHeader ==
    /\ up = "up" /\ pre = Idle
    /\ \E i \in 1..Len(hist) : \E p \in HeaderFlips :
          Damaged("header", hist[i].seg, hist[i].hdr, hist[i].key, Current(hist[i]),
                  WriteAt(disk[DBPath].files[hist[i].seg], hist[i].hdr + p,
                          DataSlices(<<0>>)))

\* a segment file is cut off inside a record
Truncate ==
    /\ up = "up" /\ pre = Idle
    /\ \E i \in 1..Len(hist) : \E c \in Cuts :
          Damaged("cut", hist[i].seg, hist[i].hdr, hist[i].key, Current(hist[i]),
                  FTake(disk[DBPath].files[hist[i].seg], hist[i].hdr + c))

\* bytes that are no record are appended to a segment file
AppendGarbage ==
    /\ up = "up" /\ pre = Idle
    /\ \E seg \in Segs(disk[DBPath]) :
          Damaged("garbage", seg, FLen(disk[DBPath].files[seg]), <<>>, FALSE,
                  WriteAt(disk[DBPath].files[seg], FLen(disk[DBPath].files[seg]),
                          DataSlices(Garbage)))

\* a client's Get of the damaged record's key after the damage; these Gets
\* are counted
DGet ==
    /\ up = "up" /\ pre # Idle
    /\ pre.gets < 2
    /\ \E k \in Keys \cap {pre.key} :
        /\ \E r \in {Get(Main, disk, k)} :
           /\ Adopt(r.st)
           /\ ret' = Ret("Get", k, r.value, r.res, -1, FALSE, LastWrite(ret))
        /\ pre' = [pre EXCEPT !.gets = @ + 1]
    /\ UNCHANGED <<disk, up, mem, nops, nfail, cpc, sub, todo, ncyc, threadVars>>

\* the store is reopened after the damage
DRestart ==
    /\ pre # Idle
    /\ \E o \in {Open(disk)} :
       /\ disk' = o.disk
       /\ up' = IF o.ok THEN "up" ELSE "failed"
       /\ Adopt(o.st)
       /\ ret' = Ret("Restart", <<>>, <<>>, IF o.ok THEN "ok" ELSE "OpenFailed",
                     -1, FALSE, NoPrev)
    /\ pre' = [pre EXCEPT !.restarted = TRUE]
    /\ UNCHANGED <<mem, nops, nfail, cpc, sub, todo, ncyc, threadVars>>

NextDamage ==
    DPut \/ DDel \/ FlipPayload \/ FlipHeader \/ Truncate \/ AppendGarbage
    \/ DGet \/ DRestart

SpecDamage == Init /\ [][NextDamage]_vars

-----------------------------------------------------------------------------
(* Writes, failed writes and restarts of one process, with hist the log of
   the records whose append succeeded *)

RPut ==
    /\ up = "up" /\ nops < MaxRotateOps
    /\ \E k \in Keys, v \in DamageValues :
        \E r \in {Set(Main, disk, [Key |-> k, Value |-> v], OkOut(PayloadSize(k, v)))} :
           LogWrite("Put", k, v, r)

RDel ==
    /\ up = "up" /\ nops < MaxRotateOps
    /\ \E k \in Keys :
        /\ Live(index, k)
        /\ \E r \in {Delete(Main, disk, k, OkOut(PayloadSize(k, <<>>)))} :
              LogWrite("Delete", k, <<>>, r)

\* a Put whose header or payload write fails
RPutFail ==
    /\ up = "up" /\ nops < MaxRotateOps /\ nfail < MaxFail
    /\ \E k \in Keys, v \in DamageValues :
        \E out \in FailOuts(PayloadSize(k, v)) :
        \E r \in {Set(Main, disk, [Key |-> k, Value |-> v], out)} :
           /\ Adopt(r.st)
           /\ disk' = r.disk
           /\ ret' = Ret("Put", k, v, r.res, r.off0, r.rot, LastWrite(ret))
    /\ nops' = nops + 1
    /\ nfail' = nfail + 1
    /\ UNCHANGED <<up, mem, pre, cpc, sub, todo, ncyc, thr, hist>>

RRestart ==
    /\ up = "up"
    /\ ret.op # "Restart"
    /\ \E o \in {Open(disk)} :
       /\ disk' = o.disk
       /\ up' = IF o.ok THEN "up" ELSE "failed"
       /\ Adopt(o.st)
       /\ ret' = Ret("Restart", <<>>, <<>>, IF o.ok THEN "ok" ELSE "OpenFailed",
                     -1, FALSE, NoPrev)
    /\ UNCHANGED <<mem, nops, nfail, pre, compactVars, threadVars>>

NextRotate == RPut \/ RDel \/ RPutFail \/ RRestart

SpecRotate == Init /\ [][NextRotate]_vars

\* the writes of one process: every segment is written from an empty file
NextAppend == RPut \/ RDel \/ RPutFail

SpecAppend == Init /\ [][NextAppend]_vars

-----------------------------------------------------------------------------
(* The compactor.  One cycle runs under the store's lock, so client
   operations wait while cpc is not "idle"; the process can die between any
   two of its steps. *)

Min(S) == CHOOSE x \in S : \A y \in S : x <= y

\* os.Remove of one file of a directory
RemoveFile(dir, n) ==
    [exists |-> TRUE, files |-> [x \in Segs(dir) \ {n} |-> dir.files[x]]]

LiveKeys(idx) == {k \in DOMAIN idx : ~idx[k].Deleted}

\* the copy of one live key into the sub-store: read it from the main
\* store, Set it in the sub-store.  [ok, st, disk]
\* the Set of a copied key in the sub-store: [ok, st, disk]
CopySet(r) == [ok |-> r.res = "ok", st |-> r.st, disk |-> r.disk]

CopyRead(s, d, k, g) ==
    IF g.res # "ok" THEN [ok |-> FALSE, st |-> s, disk |-> d]
    ELSE CopySet(Set(s, d, [Key |-> k, Value |-> g.value],
                     OkOut(PayloadSize(k, g.value))))

CopyKey(main, s, d, k) == CopyRead(s, d, k, GetValue(main, d, k))

\* the whole copy phase, one key after the other
RECURSIVE CopyLive(_, _, _, _)
RECURSIVE CopyNext(_, _, _, _)
CopyLive(main, s, d, ks) ==
    IF ks = {} THEN [ok |-> TRUE, st |-> s, disk |-> d]
    ELSE CopyNext(main, ks, CHOOSE x \in ks : TRUE,
                  CopyKey(main, s, d, CHOOSE x \in ks : TRUE))

CopyNext(main, ks, k, c) ==
    IF c.ok THEN CopyLive(main, c.st, c.disk, ks \ {k}) ELSE c

CompactedFrom(main, d, n) ==
    IF n.ok THEN CopyLive(main, n.st, n.disk, LiveKeys(main.index))
    ELSE [ok |-> FALSE, st |-> main, disk |-> d]

CompactedGets(main, d, c) ==
    [k \in Keys |-> IF c.ok THEN GetValue(c.st, c.disk, k) ELSE GetValue(main, d, k)]

\* what Get returns for each key once a cycle begun on store main over disk
\* d has run to its end (a cycle that aborts leaves the main store as it was)
Compacted(main, d) ==
    CompactedGets(main, d, CompactedFrom(main, d, NewStore(d, TmpDBPath)))

\* the Get results saved when a cycle begins, and those of its outcome
Snapshot == [get |-> [k \in Keys |-> GetValue(Main, disk, k)],
             post |-> Compacted(Main, disk),
             files |-> disk[DBPath].files,
             main |-> Main,
             stale |-> disk[BackupDBPath].exists
                       /\ disk[BackupDBPath].files # disk[DBPath].files]

\* a cycle that gives up and leaves TmpDBPath behind
Abort_KeepsTmp ==
    /\ disk' = [disk EXCEPT ![BackupDBPath] = AbsentDir]
    /\ cpc' = "idle"
    /\ sub' = NoStore
    /\ todo' = {}
    /\ ret' = Ret("Compact", <<>>, <<>>, "CompactFailed", -1, FALSE, NoPrev)

\* the cycle gives up: sub-store closed, BackupDBPath and TmpDBPath removed
Abort ==
    /\ disk' = [disk EXCEPT ![BackupDBPath] = AbsentDir, ![TmpDBPath] = AbsentDir]
    /\ cpc' = "idle"
    /\ sub' = NoStore
    /\ todo' = {}
    /\ ret' = Ret("Compact", <<>>, <<>>, "CompactFailed", -1, FALSE, NoPrev)

\* the cycle starts: the lock is taken
CBegin ==
    /\ up = "up"
    /\ cpc = "idle"
    /\ ncyc < MaxCycles
    /\ ncyc' = ncyc + 1
    /\ pre' = Snapshot
    /\ cpc' = "backup"
    /\ todo' = {}
    /\ ret' = Ret("Compact", <<>>, <<>>, "running", -1, FALSE, NoPrev)
    /\ UNCHANGED <<disk, up, index, writer, activeLogCount, mem, nops, nfail, sub,
                   threadVars>>

\* step 1, copyDB(DBPath, BackupDBPath): RemoveAll of the destination, one
\* file at a time, then MkdirAll
CBackupClear ==
    /\ cpc = "backup"
    /\ IF Segs(disk[BackupDBPath]) # {}
       THEN /\ \E n \in Segs(disk[BackupDBPath]) :
                   disk' = [disk EXCEPT ![BackupDBPath] = RemoveFile(@, n)]
            /\ UNCHANGED <<cpc, todo>>
       ELSE /\ disk' = [disk EXCEPT ![BackupDBPath] = EmptyDir]
            /\ cpc' = "copyfiles"
            /\ todo' = Segs(disk[DBPath])
    /\ UNCHANGED <<up, index, writer, activeLogCount, mem, ret, nops, nfail, pre,
                   sub, ncyc, threadVars>>

\* a copyDB that passes over a segment file without copying it
CBackupCopy_Skip ==
    /\ cpc = "copyfiles"
    /\ todo # {}
    /\ todo' = todo \ {Min(todo)}
    /\ UNCHANGED <<disk, up, index, writer, activeLogCount, mem, ret, nops, nfail,
                   pre, cpc, sub, ncyc, threadVars>>

\* step 1, copyDB: copySegment of the next file in directory order
CBackupCopy ==
    /\ cpc = "copyfiles"
    /\ todo # {}
    /\ LET n == Min(todo) IN
       /\ disk' = [disk EXCEPT ![BackupDBPath] =
                       PutFile(@, n, copySegment(disk[DBPath].files[n]))]
       /\ todo' = todo \ {n}
    /\ UNCHANGED <<up, index, writer, activeLogCount, mem, ret, nops, nfail, pre,
                   cpc, sub, ncyc, threadVars>>

\* step 2: the sub-store is opened at TmpDBPath
CSubStore ==
    /\ cpc = "copyfiles"
    /\ todo = {}
    /\ \E n \in {NewStore(disk, TmpDBPath)} :
       IF n.ok
       THEN /\ disk' = n.disk
            /\ sub' = n.st
            /\ todo' = LiveKeys(index)
            /\ cpc' = "copykeys"
            /\ ret' = ret
       ELSE Abort
    /\ UNCHANGED <<up, index, writer, activeLogCount, mem, nops, nfail, pre, ncyc,
                   threadVars>>

\* step 3: one live key is copied into the sub-store
CCopyKey ==
    /\ cpc = "copykeys"
    /\ \E k \in todo :
          \E c \in {CopyKey(Main, sub, disk, k)} :
          IF c.ok
          THEN /\ disk' = c.disk
               /\ sub' = c.st
               /\ todo' = todo \ {k}
               /\ UNCHANGED <<cpc, ret>>
          ELSE Abort
    /\ UNCHANGED <<up, index, writer, activeLogCount, mem, nops, nfail, pre, ncyc,
                   threadVars>>

\* the Set of key k in the sub-store, after the read g, with a write that
\* reports the byte counts out
CopyWith(s, d, k, g, out) ==
    IF g.res # "ok" THEN [ok |-> FALSE, st |-> s, disk |-> d]
    ELSE CopySet(Set(s, d, [Key |-> k, Value |-> g.value], out))

\* step 3 fails: the read of a live key returns an error, or the write of
\* its copy into the sub-store does; either way the cycle gives up
CCopyFail ==
    /\ cpc = "copykeys"
    /\ nfail < MaxFail
    /\ \E k \in todo :
          \E g \in {GetValue(Main, disk, k)} :
          \E out \in FailOuts(PayloadSize(k, g.value)) :
             /\ ~CopyWith(sub, disk, k, g, out).ok
             /\ Abort
    /\ nfail' = nfail + 1
    /\ UNCHANGED <<up, index, writer, activeLogCount, mem, nops, pre, ncyc,
                   threadVars>>

\* steps 4a and 4b: both writers are closed
CCloseWriters ==
    /\ cpc = "copykeys"
    /\ todo = {}
    /\ cpc' = "remove"
    /\ UNCHANGED <<disk, up, index, writer, activeLogCount, mem, ret, nops, nfail,
                   pre, sub, todo, ncyc, threadVars>>

\* step 4c: DBPath is removed, its files one at a time and then the directory
CRemoveDB ==
    /\ cpc = "remove"
    /\ IF Segs(disk[DBPath]) # {}
       THEN /\ \E n \in Segs(disk[DBPath]) :
                   disk' = [disk EXCEPT ![DBPath] = RemoveFile(@, n)]
            /\ cpc' = cpc
       ELSE /\ disk' = [disk EXCEPT ![DBPath] = AbsentDir]
            /\ cpc' = "rename"
    /\ UNCHANGED <<up, index, writer, activeLogCount, mem, ret, nops, nfail, pre,
                   sub, todo, ncyc, threadVars>>

\* a rename after which the cycle goes back to the removal of DBPath
CRename_Again ==
    /\ cpc = "rename"
    /\ disk' = [disk EXCEPT ![DBPath] = disk[TmpDBPath], ![TmpDBPath] = AbsentDir]
    /\ cpc' = "remove"
    /\ UNCHANGED <<up, index, writer, activeLogCount, mem, ret, nops, nfail, pre,
                   sub, todo, ncyc, threadVars>>

\* step 4d: TmpDBPath is renamed to DBPath
CRename ==
    /\ cpc = "rename"
    /\ disk' = [disk EXCEPT ![DBPath] = disk[TmpDBPath], ![TmpDBPath] = AbsentDir]
    /\ cpc' = "reopen"
    /\ UNCHANGED <<up, index, writer, activeLogCount, mem, ret, nops, nfail, pre,
                   sub, todo, ncyc, threadVars>>

\* step 4e: a writer is reopened on the sub-store's active segment and the
\* sub-store's index and counter become the main store's
CReopen ==
    /\ cpc = "reopen"
    /\ writer' = newLogWriter(disk[DBPath], sub.writer.name)
    /\ index' = sub.index
    /\ activeLogCount' = sub.activeLogCount
    /\ sub' = NoStore
    /\ cpc' = "unbackup"
    /\ UNCHANGED <<disk, up, mem, ret, nops, nfail, pre, todo, ncyc, threadVars>>

\* step 4f: BackupDBPath is removed; with it gone the cycle is complete
CRemoveBackup ==
    /\ cpc = "unbackup"
    /\ IF Segs(disk[BackupDBPath]) # {}
       THEN /\ \E n \in Segs(disk[BackupDBPath]) :
                   disk' = [disk EXCEPT ![BackupDBPath] = RemoveFile(@, n)]
            /\ UNCHANGED <<cpc, ret>>
       ELSE /\ disk' = [disk EXCEPT ![BackupDBPath] = AbsentDir]
            /\ cpc' = "idle"
            /\ ret' = Ret("Compact", <<>>, <<>>, "ok", -1, FALSE, NoPrev)
    /\ UNCHANGED <<up, index, writer, activeLogCount, mem, nops, nfail, pre, sub,
                   todo, ncyc, threadVars>>

\* the process dies inside a cycle and the store is opened again
CrashInCycle ==
    /\ up = "up"
    /\ cpc # "idle"
    /\ \E o \in {Open(disk)} :
       /\ disk' = o.disk
       /\ up' = IF o.ok THEN "up" ELSE "failed"
       /\ Adopt(o.st)
       /\ ret' = Ret("Recover", <<>>, <<>>, IF o.ok THEN "ok" ELSE "OpenFailed",
                     -1, FALSE, NoPrev)
    /\ cpc' = "idle"
    /\ sub' = NoStore
    /\ todo' = {}
    /\ UNCHANGED <<mem, nops, nfail, pre, ncyc, threadVars>>

\* step 1 fails: the cycle is skipped, with what the copy has made of
\* BackupDBPath left behind
CBackupFail ==
    /\ cpc \in {"backup", "copyfiles"}
    /\ nfail < MaxFail
    /\ cpc' = "idle"
    /\ todo' = {}
    /\ ret' = Ret("Compact", <<>>, <<>>, "CompactSkipped", -1, FALSE, NoPrev)
    /\ nfail' = nfail + 1
    /\ UNCHANGED <<disk, up, index, writer, activeLogCount, mem, nops, pre, sub,
                   ncyc, threadVars>>

\* a startup that schedules a compactor for every store it opens
Schedules_Always(dbPath) == TRUE

\* the last step of a startup: the compactor is scheduled if the store is
\* the main store
Schedules(dbPath) == dbPath = DBPath

\* the stores that are open: the main store, and the sub-store of a cycle
OpenStores == {p \in {DBPath} : up = "up"} \cup {p \in {sub.dbPath} : sub # NoStore}

\* the stores whose startup scheduled a compactor task
CompactorTasks == {p \in OpenStores : Schedules(p)}

\* the cycle is in its swap phase: the copy is done and the new state is
\* not yet adopted
InSwap == \/ (cpc = "copykeys" /\ todo = {})
          \/ cpc \in {"remove", "rename", "reopen"}

\* a step of the swap fails (closing a writer, removing DBPath, the rename,
\* reopening the writer): DBPath is restored with copyDB(BackupDBPath, DBPath)
\* and the writer is reopened on the active segment the cycle began with
CSwapFail ==
    /\ InSwap
    /\ nfail < MaxFail
    /\ disk' = [disk EXCEPT ![DBPath] = copyDB(disk[BackupDBPath])]
    /\ writer' = newLogWriter(copyDB(disk[BackupDBPath]), writer.name)
    /\ cpc' = "idle"
    /\ sub' = NoStore
    /\ todo' = {}
    /\ ret' = Ret("Compact", <<>>, <<>>, "Restored", -1, FALSE, NoPrev)
    /\ nfail' = nfail + 1
    /\ UNCHANGED <<up, index, activeLogCount, mem, nops, pre, ncyc, threadVars>>

\* a step of the swap fails and the restore fails too, after copyDB has
\* removed and recreated DBPath: the process terminates
CRestoreFail ==
    /\ InSwap
    /\ nfail < MaxFail
    /\ disk' = [disk EXCEPT ![DBPath] = EmptyDir]
    /\ up' = "dead"
    /\ Adopt(NoStore)
    /\ cpc' = "idle"
    /\ sub' = NoStore
    /\ todo' = {}
    /\ ret' = Ret("Compact", <<>>, <<>>, "Fatal", -1, FALSE, NoPrev)
    /\ nfail' = nfail + 1
    /\ UNCHANGED <<mem, nops, pre, ncyc, threadVars>>

\* the process dies with DBPath removed and the next process begins the
\* startup restore, copyDB(BackupDBPath, DBPath): the destination is created
RBegin ==
    /\ up = "up"
    /\ cpc # "idle"
    /\ ~disk[DBPath].exists /\ disk[BackupDBPath].exists
    /\ disk' = [disk EXCEPT ![DBPath] = EmptyDir]
    /\ up' = "down"
    /\ Adopt(NoStore)
    /\ cpc' = "restore"
    /\ sub' = NoStore
    /\ todo' = Segs(disk[BackupDBPath])
    /\ ret' = Ret("Restore", <<>>, <<>>, "running", -1, FALSE, NoPrev)
    /\ UNCHANGED <<mem, nops, nfail, pre, ncyc, threadVars>>

\* the restore's copyDB: copySegment of the next file in directory order
RCopy ==
    /\ cpc = "restore"
    /\ todo # {}
    /\ \E n \in {Min(todo)} :
       /\ disk' = [disk EXCEPT ![DBPath] =
                       PutFile(@, n, copySegment(disk[BackupDBPath].files[n]))]
       /\ todo' = todo \ {n}
    /\ UNCHANGED <<up, index, writer, activeLogCount, mem, ret, nops, nfail, pre,
                   cpc, sub, ncyc, threadVars>>

\* the restore removes BackupDBPath, its files one at a time and then the
\* directory
RRemoveBackup ==
    /\ cpc = "restore"
    /\ todo = {}
    /\ IF Segs(disk[BackupDBPath]) # {}
       THEN /\ \E n \in Segs(disk[BackupDBPath]) :
                   disk' = [disk EXCEPT ![BackupDBPath] = RemoveFile(@, n)]
            /\ cpc' = cpc
       ELSE /\ disk' = [disk EXCEPT ![BackupDBPath] = AbsentDir]
            /\ cpc' = "restored"
    /\ UNCHANGED <<up, index, writer, activeLogCount, mem, ret, nops, nfail, pre,
                   sub, todo, ncyc, threadVars>>

\* the result o of the NewStore that ends a startup
Started(o) ==
    /\ disk' = o.disk
    /\ up' = IF o.ok THEN "up" ELSE "failed"
    /\ Adopt(o.st)
    /\ ret' = Ret("Recover", <<>>, <<>>, IF o.ok THEN "ok" ELSE "OpenFailed",
                  -1, FALSE, NoPrev)
    /\ cpc' = "idle"
    /\ sub' = NoStore
    /\ todo' = {}
    /\ UNCHANGED <<mem, nops, nfail, pre, ncyc, threadVars>>

\* the restore is done and the startup goes on with NewStore
ROpen ==
    /\ cpc = "restored"
    /\ Started(NewStore(disk, DBPath))

\* the process dies inside the restore and the store is opened again
CrashInRestore ==
    /\ cpc = "restore"
    /\ Started(Open(disk))

ClientPut == nops < MaxCompactOps /\ PutOk
ClientDel == nops < MaxCompactOps /\ DelOk

NextCompact ==
    \/ ClientPut \/ ClientDel
    \/ CBegin \/ CBackupClear \/ CBackupCopy \/ CSubStore \/ CCopyKey
    \/ CCloseWriters \/ CRemoveDB \/ CRename \/ CReopen \/ CRemoveBackup
    \/ CrashInCycle
    \/ RBegin \/ RCopy \/ RRemoveBackup \/ ROpen \/ CrashInRestore
    \/ CBackupFail \/ CCopyFail \/ CSwapFail \/ CRestoreFail

SpecCompact == Init /\ [][NextCompact]_vars

-----------------------------------------------------------------------------
(* Concurrent clients.  A Set is two steps: the Write, under the writer's
   mutex, and the index update, under the store's lock, with other threads
   free to run in between.  A Get is two steps: the index lookup under the
   read lock, and the read of the file.  A Delete holds the store's lock
   from its lookup to its index update and is one step. *)

Threads == 1..NThreads

NoEntry == [SegmentFile |-> -1, Offset |-> -1, Size |-> -1, Deleted |-> TRUE,
            Checksum |-> <<>>]

\* a thread between operations; last is the Get it completed last, if any
NoGet == [op |-> None, key |-> <<>>, res |-> NotFound, allowed |-> {}]
IdleThread(last) ==
    [pc |-> "idle", key |-> <<>>, value |-> <<>>, m |-> NoMeta, entry |-> NoEntry,
     seen |-> {}, allowed |-> {}, last |-> last]

\* the history: for each key the results of the completed Puts and Deletes
\* that no later completed Put or Delete followed, and the keys deleted
InitHist == [latest |-> [k \in Keys |-> {NotFound}], deleted |-> {}]

\* a write of key k with result r begins: every Get of k in progress may
\* return it
Begins(t, k, r) ==
    [u \in Threads |->
        IF u # t /\ thr[u].pc = "looked" /\ thr[u].key = k
        THEN [thr[u] EXCEPT !.allowed = @ \cup {r}] ELSE thr[u]]

\* a write of key k with result r completes: every write of k in progress
\* has seen it complete
Completes(th, t, k, r) ==
    [u \in Threads |->
        IF u # t /\ th[u].pc = "written" /\ th[u].key = k
        THEN [th[u] EXCEPT !.seen = @ \cup {r}] ELSE th[u]]

\* the results a Get of k that begins now may return
AllowedNow(k) ==
    hist.latest[k] \cup {Found(thr[u].value) : u \in {x \in Threads :
                               thr[x].pc = "written" /\ thr[x].key = k}}

\* Set, first part: json.Marshal and LogWriter.Write
TPutWrite(t, k, v) ==
    /\ up = "up"
    /\ thr[t].pc = "idle"
    /\ nops < MaxConcOps
    /\ nops' = nops + 1
    /\ \E a \in {AppendRecord(Main, disk, Marshal([Key |-> k, Value |-> v]), {},
                              OkOut(PayloadSize(k, v)))} :
          /\ disk' = a.disk
          /\ writer' = a.st.writer
          /\ activeLogCount' = a.st.activeLogCount
          /\ mem' = [mem EXCEPT ![k] = Written("put", v, a.st, a.m)]
          /\ thr' = [Begins(t, k, Found(v)) EXCEPT
                        ![t] = [IdleThread(thr[t].last) EXCEPT
                                   !.pc = "written", !.key = k, !.value = v,
                                   !.m = a.m]]
    /\ UNCHANGED <<up, index, ret, nfail, hist, compactVars>>

\* the store as the Set of thread t updates it: the entry names the segment
\* the thread's record was written to
WrittenBy(t) == [Main EXCEPT !.writer.name = thr[t].m.SegmentFile]

\* Set, second part: the index entry is stored under the store's lock
TPutIndex(t) ==
    /\ thr[t].pc = "written"
    /\ \E st \in {Commit(WrittenBy(t), thr[t].key, thr[t].m, FALSE)} :
          /\ index' = st.index
          /\ activeLogCount' = st.activeLogCount
    /\ hist' = [hist EXCEPT !.latest[thr[t].key] =
                   {Found(thr[t].value)} \cup (thr[t].seen \cap @)]
    /\ thr' = [Completes(thr, t, thr[t].key, Found(thr[t].value)) EXCEPT
                  ![t] = IdleThread(thr[t].last)]
    /\ UNCHANGED <<disk, up, writer, mem, ret, nops, nfail, compactVars>>

\* Delete, under the store's lock
TDelete(t, k) ==
    /\ up = "up"
    /\ thr[t].pc = "idle"
    /\ nops < MaxConcOps
    /\ nops' = nops + 1
    /\ \E r \in {Delete(Main, disk, k, OkOut(PayloadSize(k, <<>>)))} :
          /\ Adopt(r.st)
          /\ disk' = r.disk
          /\ IF r.res = "ok"
             THEN /\ mem' = [mem EXCEPT ![k] = Written("deleted", <<>>, r.st, r.m)]
                  /\ hist' = [hist EXCEPT !.latest[k] = {NotFound},
                                          !.deleted = @ \cup {k}]
                  /\ thr' = Completes(Begins(t, k, NotFound), t, k, NotFound)
             ELSE UNCHANGED <<mem, hist, thr>>
    /\ UNCHANGED <<up, ret, nfail, compactVars>>

\* Get, first part: the index entry is read under the read lock
TGetLookup(t, k) ==
    /\ up = "up"
    /\ thr[t].pc = "idle"
    /\ nops < MaxConcOps
    /\ nops' = nops + 1
    /\ thr' = [thr EXCEPT ![t] =
                  [IdleThread(thr[t].last) EXCEPT
                      !.pc = "looked", !.key = k,
                      !.entry = IF k \in DOMAIN index THEN index[k] ELSE NoEntry,
                      !.allowed = AllowedNow(k)]]
    /\ UNCHANGED <<disk, up, index, writer, activeLogCount, mem, ret, nfail, hist,
                   compactVars>>

\* what the Get of thread t returns for the entry it looked up
Fetched(t) ==
    IF thr[t].entry = NoEntry THEN NotFound ELSE Fetch(disk[DBPath], thr[t].entry)

\* Get, second part: fetchValue, and the purge after a checksum mismatch
TGetFetch(t) ==
    /\ thr[t].pc = "looked"
    /\ \E g \in {Fetched(t)} :
          /\ index' = Purge(Main, thr[t].key, g).st.index
          /\ thr' = [thr EXCEPT ![t] =
                        IdleThread([op |-> "Get", key |-> thr[t].key, res |-> g,
                                    allowed |-> thr[t].allowed])]
    /\ UNCHANGED <<disk, up, writer, activeLogCount, mem, ret, nops, nfail, hist,
                   compactVars>>

InitConc ==
    /\ \E o \in {Open(InitDisk)} :
          /\ disk = o.disk
          /\ index = o.st.index
          /\ writer = o.st.writer
          /\ activeLogCount = o.st.activeLogCount
    /\ up = "up"
    /\ mem = [k \in Keys |-> Absent]
    /\ ret = Ret("Open", <<>>, <<>>, "ok", -1, FALSE, NoPrev)
    /\ pre = Idle
    /\ nops = 0
    /\ nfail = 0
    /\ cpc = "idle"
    /\ sub = NoStore
    /\ todo = {}
    /\ ncyc = 0
    /\ thr = [t \in Threads |-> IdleThread(NoGet)]
    /\ hist = InitHist

ThreadPut == \E t \in Threads, k \in Keys, v \in Values : TPutWrite(t, k, v)
ThreadPutIndex == \E t \in Threads : TPutIndex(t)
ThreadDelete == \E t \in Threads, k \in Keys : TDelete(t, k)
ThreadGet == \E t \in Threads, k \in Keys : TGetLookup(t, k)
ThreadGetFetch == \E t \in Threads : TGetFetch(t)

NextConc ==
    ThreadPut \/ ThreadPutIndex \/ ThreadDelete \/ ThreadGet \/ ThreadGetFetch

SpecConc == InitConc /\ [][NextConc]_vars

-----------------------------------------------------------------------------
(* Client threads over a disk that goes bad: between any two steps of the
   threads a byte of the payload of an indexed record may change. *)

PurgeThreads == {1, 2}

\* the last byte of the value in the payload that the index entry of a live
\* key points at changes into an x
PFlip ==
    /\ up = "up" /\ nfail < MaxFail
    /\ \E k \in LiveKeys(index) :
        \E p \in {index[k].Size - 3}, x \in {120} :
        \E g \in {WriteAt(disk[DBPath].files[index[k].SegmentFile],
                          index[k].Offset + p, DataSlices(<<x>>))} :
           /\ Bytes(FRead(g, index[k].Offset, index[k].Size))
                 # Bytes(FRead(disk[DBPath].files[index[k].SegmentFile],
                               index[k].Offset, index[k].Size))
           /\ disk' = [disk EXCEPT ![DBPath] = PutFile(@, index[k].SegmentFile, g)]
    /\ nfail' = nfail + 1
    /\ UNCHANGED <<up, index, writer, activeLogCount, mem, ret, nops, pre, cpc,
                   sub, todo, ncyc, thr, hist>>

PPutWrite == \E t \in PurgeThreads, k \in Keys, v \in Values : TPutWrite(t, k, v)
PPutIndex == \E t \in PurgeThreads : TPutIndex(t)
PDelete == \E t \in PurgeThreads, k \in Keys : TDelete(t, k)
PGetLookup == \E t \in PurgeThreads, k \in Keys : TGetLookup(t, k)
PGetFetch == \E t \in PurgeThreads : TGetFetch(t)

NextPurge == PPutWrite \/ PPutIndex \/ PDelete \/ PGetLookup \/ PGetFetch \/ PFlip

SpecPurge == InitConc /\ [][NextPurge]_vars

-----------------------------------------------------------------------------
(* Client threads next to the compactor.  The cycle holds the store's lock
   (s.mu) from CBegin until cpc is "idle" again.  A client step that takes
   s.mu waits for it; LogWriter.Write takes only the writer's own mutex and
   fetchValue takes no lock.  Once the cycle has closed the writer, a Write
   returns an error and changes nothing. *)

LockThreads == {1, 2}

WriterOpen == cpc \in {"idle", "backup", "copyfiles", "copykeys"}

\* Set up to the return of s.writer.Write
LPutWrite ==
    /\ WriterOpen
    /\ nops < MaxLockOps
    /\ \E t \in LockThreads, k \in Keys, v \in DamageValues : TPutWrite(t, k, v)

\* Set from s.mu.Lock() on
LPutIndex ==
    /\ cpc = "idle"
    /\ \E t \in LockThreads : TPutIndex(t)

LDelete ==
    /\ cpc = "idle"
    /\ nops < MaxLockOps
    /\ \E t \in LockThreads, k \in Keys : TDelete(t, k)

\* Get up to s.mu.RUnlock()
LGetLookup ==
    /\ cpc = "idle"
    /\ nops < MaxLockOps
    /\ \E t \in LockThreads, k \in Keys : TGetLookup(t, k)

\* Get from fetchValue on; the purge that follows a checksum mismatch takes
\* s.mu
LGetFetch ==
    \E t \in LockThreads :
       /\ thr[t].pc = "looked"
       /\ (cpc = "idle" \/ Fetched(t).res # "ErrChecksumMismatch")
       /\ TGetFetch(t)

NextLock ==
    \/ LPutWrite \/ LPutIndex \/ LDelete \/ LGetLookup \/ LGetFetch
    \/ CBegin \/ CBackupClear \/ CBackupCopy \/ CSubStore \/ CCopyKey
    \/ CCloseWriters \/ CRemoveDB \/ CRename \/ CReopen \/ CRemoveBackup

SpecLock == InitConc /\ [][NextLock]_vars

\* the steps of a cycle whose disk operations succeed
CycleStep ==
    \/ CBackupClear \/ CBackupCopy \/ CSubStore \/ CCopyKey
    \/ CCloseWriters \/ CRemoveDB \/ CRename \/ CReopen \/ CRemoveBackup

\* the steps of a cycle in which a disk operation fails
CycleFails == CBackupFail \/ CCopyFail \/ CSwapFail \/ CRestoreFail

NextLive ==
    \/ LPutWrite \/ LPutIndex \/ LDelete \/ LGetLookup \/ LGetFetch
    \/ CBegin \/ CycleStep \/ CycleFails

\* a step of the compactor task: it is no step of a client thread
CompactorStep == thr' = thr /\ nops' = nops

\* the compactor task keeps running: while a cycle is under way its disk
\* operations return, so it takes its next step
CompactorRuns == []<>(cpc = "idle") \/ []<><<CompactorStep>>_vars

\* thread t waits for s.mu to store its index entry
WaitsToIndex(t) == thr[t].pc = "written"

\* thread t has looked its entry up and can go on: fetchValue takes no lock,
\* the purge after a checksum mismatch takes s.mu
FetchReady(t) ==
    /\ thr[t].pc = "looked"
    /\ (cpc = "idle" \/ Fetched(t).res # "ErrChecksumMismatch")

\* a client thread keeps running, and one that waits for the lock gets it
\* once the lock stays free
ThreadRuns(t) ==
    /\ []<>~(cpc = "idle" /\ WaitsToIndex(t))
    /\ []<>~FetchReady(t)

SpecLive ==
    /\ InitConc /\ [][NextLive]_vars
    /\ CompactorRuns
    /\ \A t \in LockThreads : ThreadRuns(t)

-----------------------------------------------------------------------------
(* C1: after any sequence of Put and Delete followed by a restart, the store
   is open and Get on every key returns what the memory-only map returns:
   the value of the last successful Put, KeyNotFound after a later
   successful Delete or when the key was never put. *)
C1_RestartAgreesWithMemoryMap ==
    ret.op = "Restart" =>
        /\ up = "up"
        /\ \A k \in Keys : GetNow(k) = Expected(k)

(* C2: when Put(k, v) has returned success and the process is killed and
   restarted at once, the reopened store returns v for Get(k); in every
   reachable state, also after failed writes and tolerated corrupt tails. *)
C2_AckedPutSurvivesKill ==
    [][(ret.op = "Put" /\ ret.res = "ok" /\ ret'.op = "Restart") =>
          /\ up' = "up"
          /\ GetValue(MainNext, disk', ret.key) = Found(ret.value)]_vars

-----------------------------------------------------------------------------
(* Steps of the sequential system *)

\* this step is a Put or Delete that returned res
WriteStep(op, res) == nops' = nops + 1 /\ ret'.op = op /\ ret'.res = res

ActiveFile(d, w) == d[DBPath].files[w.name]

\* the header that lies at offset off of file f, if a whole valid one does
ValidHeader(h) == IF h.ok /\ ValidateMChecksum(h.m) THEN h.m ELSE NoMeta

HeaderAt(f, off) == ValidHeader(Deserialize(FRead(f, off, MetadataSize)))

(* C3: when the process dies at any step of a compaction cycle, the next
   Open succeeds and Get on every key returns either what it returned just
   before the cycle or what the fully compacted store returns. *)
C3_CrashInCycleIsAllOrNothing ==
    ret.op = "Recover" =>
        /\ up = "up"
        /\ \A k \in Keys : GetNow(k) \in {pre.get[k], pre.post[k]}

(* C4: when a compaction cycle completes, Get on every key returns what it
   returned just before the cycle. *)
C4_CompactionPreservesGets ==
    (ret.op = "Compact" /\ ret.res = "ok") =>
        \A k \in Keys : GetNow(k) = pre.get[k]

(* C7 as stated: after a Put that fails with WriteFailed the writer's next
   append offset equals its value before the Put. *)
C7_FailedPutKeepsOffset ==
    [][WriteStep("Put", "WriteFailed") => writer'.offset = writer.offset]_vars

(* C7 amended: after a Put that fails with WriteFailed the writer's next
   append offset equals the offset at which that Put's append began: the
   offset before the Put when the Put did not rotate, 0 (the start of the
   new segment) when it rotated first; and a successful Put that follows the
   failed one writes its header at exactly that offset. *)
C7_FailedPutKeepsAppendOffset ==
    [][/\ WriteStep("Put", "WriteFailed") =>
            /\ writer'.offset = ret'.off0
            /\ ret'.off0 = IF ret'.rot THEN 0 ELSE writer.offset
       /\ (WriteStep("Put", "ok") /\ LastWrite(ret) = [op |-> "Put", res |-> "WriteFailed"]) =>
            /\ writer'.name = writer.name
            /\ ret'.off0 = writer.offset
            /\ HeaderAt(ActiveFile(disk', writer'), writer.offset).Offset
                   = writer.offset + MetadataSize
            /\ mem'[ret'.key].loc.off = writer.offset + MetadataSize]_vars

C7_Witness ==
    /\ ret.op = "Put" /\ ret.res = "ok"
    /\ ret.prev = [op |-> "Put", res |-> "WriteFailed"]
    /\ ret.off0 > 0

(* C8 as stated: a Put or Delete that fails with WriteFailed leaves the index
   entry of its key and the active-segment record counter unchanged, and Get
   on the key returns what it returned before. *)
C8_FailedWriteChangesNothing ==
    [][(WriteStep("Put", "WriteFailed") \/ WriteStep("Delete", "WriteFailed")) =>
          /\ index' = index
          /\ activeLogCount' = activeLogCount
          /\ GetValue(MainNext, disk', ret'.key) = GetValue(Main, disk, ret'.key)]_vars

(* C8 amended: a Put or Delete that fails with WriteFailed leaves the index
   entry of its key unchanged and Get on the key returns what it returned
   before; the record counter is unchanged when the operation did not
   rotate, and is 0 when it rotated to a new segment before the write. *)
C8_FailedWriteKeepsIndex ==
    [][(WriteStep("Put", "WriteFailed") \/ WriteStep("Delete", "WriteFailed")) =>
          /\ index' = index
          /\ activeLogCount' = IF ret'.rot THEN 0 ELSE activeLogCount
          /\ GetValue(MainNext, disk', ret'.key) = GetValue(Main, disk, ret'.key)]_vars

C8_Witness ==
    /\ ret.op = "Delete" /\ ret.res = "WriteFailed"
    /\ ret.key \in DOMAIN index /\ ~index[ret.key].Deleted
    /\ GetNow(ret.key).res = "ok"

(* C9: for each key in the index, the entry's segment, offset and size are
   the location of the most recent record written for the key. *)
C9_IndexPointsAtLatestRecord ==
    up = "up" =>
        \A k \in DOMAIN index :
            [seg |-> index[k].SegmentFile, off |-> index[k].Offset,
             size |-> index[k].Size] = mem[k].loc

(* C10: after a successful Delete(k) and until a later successful Put(k),
   also across restarts, Get(k) returns KeyNotFound and the index holds an
   entry for k with Deleted set that points at the tombstone record. *)
C10_DeletedStaysDeleted ==
    up = "up" =>
        \A k \in Keys :
            mem[k].state = "deleted" =>
                /\ GetNow(k) = NotFound
                /\ k \in DOMAIN index
                /\ index[k].Deleted
                /\ [seg |-> index[k].SegmentFile, off |-> index[k].Offset,
                    size |-> index[k].Size] = mem[k].loc

(* C5: under any interleaving of Puts, Deletes and Gets, a Get returns the
   result of a Put or Delete of its key that completed before the Get began
   and that no other Put or Delete completed before the Get began came
   after, or of one that ran concurrently with the Get: the value put, or
   KeyNotFound for a Delete or when no Put came before. *)
C5_GetReturnsLatestOrConcurrent ==
    \A t \in Threads :
        thr[t].last.op = "Get" => thr[t].last.res \in thr[t].last.allowed

C5_Witness ==
    \E t \in Threads :
        /\ thr[t].last.op = "Get"
        /\ thr[t].last.res.res = "ok"
        /\ NotFound \in thr[t].last.allowed
        /\ Cardinality(thr[t].last.allowed) > 1

\* no operation is in progress
Quiet == \A t \in Threads : thr[t].pc = "idle"

(* C6: when the concurrent Puts of a key have all returned, the index entry
   of the key points at the record of the key that lies last in the log,
   and Get returns after a clean restart what it returns before it. *)
C6_IndexOrderIsLogOrder ==
    Quiet =>
        \A k \in Keys \ hist.deleted :
            mem[k].state = "put" =>
                /\ k \in DOMAIN index
                /\ [seg |-> index[k].SegmentFile, off |-> index[k].Offset,
                    size |-> index[k].Size] = mem[k].loc
                /\ \A o \in {Open(disk)} : GetValue(o.st, o.disk, k) = GetNow(k)

-----------------------------------------------------------------------------
(* C11: a Delete of a key that is not in the index, or whose entry has
   deleted=true, returns KeyNotFound and changes neither the segment files,
   nor the append offset, nor the record counter, nor the index. *)
C11_DeleteOfMissingKeyWritesNothing ==
    [][(/\ nops' = nops + 1 /\ ret'.op = "Delete"
        /\ (ret'.key \notin DOMAIN index \/ index[ret'.key].Deleted)) =>
          /\ ret'.res = "ErrKeyNotFound"
          /\ disk' = disk
          /\ writer' = writer
          /\ activeLogCount' = activeLogCount
          /\ index' = index]_vars

\* a Delete of an already deleted key returned, with a rotation due
C11_Witness ==
    /\ ret.op = "Delete" /\ ret.res = "ErrKeyNotFound"
    /\ ret.key \in DOMAIN index /\ index[ret.key].Deleted
    /\ activeLogCount = MaxKeysPerSegment

(* C12: a request passes Set's validation exactly when its key has between
   1 and MaxKeySize bytes and its value at most MaxValueSize bytes; a
   rejected request gets the error of a limit it breaks, and the segment
   files, the append offset, the record counter and the index stay as they
   were. *)
C12_ValidationLimits ==
    [][nops' = nops + 1 =>
        /\ (ret'.res \notin {"ErrEmptyKey", "ErrKeyTooLarge", "ErrValueTooLarge"})
             <=> (/\ 1 <= pre'.klen /\ pre'.klen <= MaxKeySize
                  /\ pre'.vlen <= MaxValueSize)
        /\ ret'.res = "ErrEmptyKey" => pre'.klen = 0
        /\ ret'.res = "ErrKeyTooLarge" => pre'.klen > MaxKeySize
        /\ ret'.res = "ErrValueTooLarge" => pre'.vlen > MaxValueSize
        /\ ret'.res \in {"ErrEmptyKey", "ErrKeyTooLarge", "ErrValueTooLarge"} =>
             /\ disk' = disk
             /\ writer' = writer
             /\ activeLogCount' = activeLogCount
             /\ index' = index]_vars

\* a value of MaxValueSize + 1 bytes was rejected after records were written
C12_Witness ==
    /\ ret.op = "Put" /\ ret.res = "ErrValueTooLarge"
    /\ pre.klen = 1 /\ pre.vlen = MaxValueSize + 1
    /\ writer.offset > 0

\* a key and a value of exactly the maximum sizes passed
C12_WitnessAtMax ==
    /\ ret.op = "Validate" /\ ret.res = "ok"
    /\ pre.klen = MaxKeySize /\ pre.vlen = MaxValueSize

(* C13: after one byte of the stored payload of the record that the index
   entry of a key points at has changed on disk, the next Get of the key
   returns the checksum mismatch and removes the key's index entry, and the
   Get after that returns KeyNotFound. *)
C13_CorruptPayloadIsPurged ==
    (/\ pre # Idle /\ pre.kind \in {"value", "json"} /\ pre.current
     /\ ~pre.restarted /\ ret.op = "Get" /\ pre.gets \in {1, 2}) =>
        IF pre.gets = 1
        THEN ret.res = "ErrChecksumMismatch" /\ pre.key \notin DOMAIN index
        ELSE ret.res = "ErrKeyNotFound"

\* the same for the changes that leave the payload decodable JSON
C13_DecodableCorruptPayloadIsPurged ==
    (/\ pre # Idle /\ pre.kind = "value" /\ pre.current
     /\ ~pre.restarted /\ ret.op = "Get" /\ pre.gets \in {1, 2}) =>
        IF pre.gets = 1
        THEN ret.res = "ErrChecksumMismatch" /\ pre.key \notin DOMAIN index
        ELSE ret.res = "ErrKeyNotFound"

\* the damage is one that the recovery scan runs into
ScanHitsDamage == pre # Idle /\ pre.kind \in {"header", "cut", "json", "garbage"}

\* the records that the damage leaves readable: those of the other segments
\* and those of the damaged segment that lie before the damage
Survives(r) == r.seg # pre.seg \/ r.hdr < pre.at
SurvivorsOf(k) == {i \in 1..Len(hist) : hist[i].key = k /\ Survives(hist[i])}

\* the index entry of the key is that of the record, and Get returns what
\* the record says
IndexedAs(k, r) ==
    /\ index[k].SegmentFile = r.seg
    /\ index[k].Offset = r.off
    /\ index[k].Size = r.size
    /\ index[k].Deleted = r.deleted
    /\ GetNow(k) = IF r.deleted THEN NotFound ELSE Found(r.value)

(* C14: when the active segment holds a truncated header, a header with a
   bad digest, a short payload or an undecodable payload, Open succeeds, the
   index holds the records of that segment before the first bad position
   and the records of the archived segments, and Get returns their values. *)
C14_ActiveDamageIsTolerated ==
    (/\ ScanHitsDamage /\ ret.op = "Restart"
     /\ pre.seg = ActiveLog(disk[DBPath])) =>
        /\ up = "up"
        /\ DOMAIN index = {k \in Keys : SurvivorsOf(k) # {}}
        /\ \A k \in DOMAIN index : IndexedAs(k, hist[Max(SurvivorsOf(k))])

\* the store was reopened over an active segment of three records whose
\* second record has an undecodable payload
C14_Witness ==
    /\ ScanHitsDamage /\ ret.op = "Restart" /\ up = "up"
    /\ pre.kind = "json" /\ Len(hist) = 3 /\ pre.at = hist[2].hdr
    /\ pre.seg = ActiveLog(disk[DBPath])

\* the store was reopened over a damaged active segment behind an archived one
C14_WitnessArchived ==
    /\ ScanHitsDamage /\ ret.op = "Restart" /\ up = "up"
    /\ pre.kind = "cut" /\ pre.seg = 1 /\ index # EmptyIndex

(* C15: when the recovery scan of an archived segment runs into a damaged
   header, a truncation, a short payload or an undecodable payload, Open
   fails and the index is empty. *)
C15_ArchivedDamageIsFatal ==
    (/\ ScanHitsDamage /\ ret.op = "Restart"
     /\ pre.seg < ActiveLog(disk[DBPath])) =>
        /\ up = "failed"
        /\ ret.res = "OpenFailed"
        /\ index = EmptyIndex

\* Open failed over an archived segment with an undecodable payload
C15_Witness ==
    /\ ScanHitsDamage /\ ret.op = "Restart" /\ up = "failed"
    /\ pre.kind = "json" /\ pre.seg = 0 /\ ActiveLog(disk[DBPath]) = 1

\* a step that ends a startup begun while a compaction cycle or a restore
\* was under way
StartupEnds == cpc # "idle" /\ cpc' = "idle" /\ ret'.op = "Recover"

\* the opened store returns for every key what Get returned when the backup
\* was made
ServesBackup ==
    /\ up' = "up"
    /\ \A k \in Keys : GetValue(MainNext, disk', k) = pre.get[k]

(* C16: an Open that finds DBPath missing and BackupPath present leaves
   DBPath with exactly the backup's segment files and no BackupPath, and Get
   returns the backed-up data; an Open that finds DBPath present leaves
   BackupPath and the files of DBPath as they are. *)
C16_OpenRestoresOnlyWhenDBMissing ==
    [][StartupEnds =>
          /\ (up = "up" /\ ~disk[DBPath].exists /\ disk[BackupDBPath].exists) =>
                /\ disk'[DBPath].exists
                /\ disk'[DBPath].files = disk[BackupDBPath].files
                /\ ~disk'[BackupDBPath].exists
                /\ ServesBackup
          /\ cpc = "restored" =>
                /\ disk'[DBPath].files = pre.files
                /\ ~disk'[BackupDBPath].exists
                /\ ServesBackup
          /\ disk[DBPath].exists =>
                /\ disk'[BackupDBPath] = disk[BackupDBPath]
                /\ \A n \in Segs(disk[DBPath]) :
                      disk'[DBPath].files[n] = disk[DBPath].files[n]]_vars

\* a store opened from the backup of a segment that holds a live key: the
\* only cycle begun so far has made TmpDBPath (so it had made its backup) and
\* has not renamed it (so DBPath was not replaced), and BackupDBPath is gone
C16_Witness ==
    /\ ret.op = "Recover" /\ up = "up" /\ pre # Idle /\ ncyc = 1
    /\ ~disk[BackupDBPath].exists /\ disk[TmpDBPath].exists
    /\ disk[DBPath].files = pre.files
    /\ \E k \in Keys : pre.get[k] # NotFound

(* C17: whenever DBPath is absent and BackupPath is present, at the crash
   points of a compaction cycle and of a startup restore too, BackupPath
   holds a complete copy of the segment files that DBPath held when the
   cycle began. *)
C17_BackupCompleteWhileDBMissing ==
    (~disk[DBPath].exists /\ disk[BackupDBPath].exists) =>
        /\ pre # Idle
        /\ disk[BackupDBPath].files = pre.files

\* DBPath has been removed by the swap of a cycle begun over a segment with
\* a record
C17_Witness ==
    /\ ~disk[DBPath].exists /\ disk[BackupDBPath].exists
    /\ cpc = "rename"
    /\ FLen(disk[BackupDBPath].files[0]) > MetadataSize

\* the records of segment n: the logged appends whose header is on disk
RecordsIn(n) ==
    {i \in 1..Len(hist) :
        /\ hist[i].seg = n
        /\ HeaderAt(disk[DBPath].files[n], hist[i].hdr) # NoMeta}

\* the header of the record lies in the file of its segment and the payload
\* follows it in the same file
WholeInSegment(r) ==
    /\ r.seg \in Segs(disk[DBPath])
    /\ r.off = r.hdr + MetadataSize
    /\ r.off + r.size <= FLen(disk[DBPath].files[r.seg])
    /\ HeaderAt(disk[DBPath].files[r.seg], r.hdr) # NoMeta
    /\ HeaderAt(disk[DBPath].files[r.seg], r.hdr).Offset = r.off
    /\ HeaderAt(disk[DBPath].files[r.seg], r.hdr).Size = r.size

\* a Put or Delete that got as far as the writer
Appends == nops' = nops + 1 /\ ret'.res \in {"ok", "WriteFailed"}

\* a write rotates exactly when the counter equals MaxKeysPerSegment as it
\* starts, and the counter of the new segment starts from 0
RotatesAtMax ==
    /\ ret'.rot <=> activeLogCount = MaxKeysPerSegment
    /\ ret'.rot =>
          /\ writer'.name = writer.name + 1
          /\ writer'.name \in Segs(disk'[DBPath]) \ Segs(disk[DBPath])
          /\ activeLogCount' = IF ret'.res = "ok" THEN 1 ELSE 0
    /\ ~ret'.rot =>
          /\ writer'.name = writer.name
          /\ activeLogCount' = IF ret'.res = "ok" THEN activeLogCount + 1
                                ELSE activeLogCount

(* C18: a Put or Delete rotates to a new segment if and only if the record
   counter of the active segment equals MaxKeysPerSegment when the write
   starts, and the counter is then reset; every segment holds at most
   MaxKeysPerSegment records; the header and the payload of each record lie
   in the same segment file. *)
C18_RotationBoundsSegments ==
    /\ [][Appends => RotatesAtMax]_vars
    /\ [](\A n \in Segs(disk[DBPath]) : Cardinality(RecordsIn(n)) <= MaxKeysPerSegment)
    /\ [](\A i \in 1..Len(hist) : WholeInSegment(hist[i]))

\* C18 without the bound on the records of a segment
C18_RotationFollowsCounter ==
    /\ [][Appends => RotatesAtMax]_vars
    /\ [](\A i \in 1..Len(hist) : WholeInSegment(hist[i]))

\* a fourth record has gone into a segment
C18_FourRecords ==
    \E n \in Segs(disk[DBPath]) : Cardinality(RecordsIn(n)) > MaxKeysPerSegment

\* a write has rotated and its record is the first of the new segment
C18_Rotated ==
    /\ ret.op = "Put" /\ ret.res = "ok" /\ ret.rot
    /\ activeLogCount = 1 /\ writer.name = 1 /\ Len(hist) = 4
    /\ hist[4].seg = 1 /\ hist[4].hdr = 0

\* segment n holds the same bytes after the step as before it
SameBytes(n) ==
    /\ n \in Segs(disk'[DBPath])
    /\ Bytes(disk'[DBPath].files[n]) = Bytes(disk[DBPath].files[n])

(* C19: a step of Put, Delete, rotation or restart changes the bytes of no
   segment but the one the writer is on after the step, and creates at most
   the next segment: a segment below the highest-numbered one never
   changes. *)
C19_ArchivedSegmentsAreFrozen ==
    [][/\ \A n \in Segs(disk[DBPath]) :
             (n # writer'.name \/ n < Max(Segs(disk[DBPath]))) => SameBytes(n)
       /\ Segs(disk'[DBPath]) \subseteq
             Segs(disk[DBPath]) \cup {Max(Segs(disk[DBPath])) + 1}]_vars

\* a second record has been written to segment 1 while segment 0 exists
C19_Witness ==
    /\ ret.op \in {"Put", "Delete"} /\ ret.res = "ok" /\ ~ret.rot
    /\ writer.name = 1 /\ activeLogCount = 2
    /\ Segs(disk[DBPath]) = {0, 1}

\* the header and the payload that the disk holds for a logged record
RecordHeader(r) == Deserialize(FRead(disk[DBPath].files[r.seg], r.hdr, MetadataSize))
RecordPayload(r) == Bytes(FRead(disk[DBPath].files[r.seg], r.off, r.size))

\* both digests of header h, recomputed from its fields and the payload,
\* are the stored ones
DigestsRecompute(h, payload) ==
    /\ ComputeChecksum(h.Offset, h.Size, h.Flags, h.SegmentFile, payload).Checksum
          = h.Checksum
    /\ ComputeChecksum(h.Offset, h.Size, h.Flags, h.SegmentFile, payload).MChecksum
          = h.MChecksum
    /\ ValidateMChecksum(h)

(* C20: for every record written by a successful append, the header on disk
   decodes, it describes the record, and recomputing the value digest from
   (offset, size, flags, file name, payload) and the header digest from
   (offset, size, flags, file name, value digest) gives the stored digests. *)
C20_StoredDigestsRecompute ==
    \A i \in 1..Len(hist) :
        /\ RecordHeader(hist[i]).ok
        /\ RecordHeader(hist[i]).m.Offset = hist[i].off
        /\ RecordHeader(hist[i]).m.Size = hist[i].size
        /\ RecordHeader(hist[i]).m.SegmentFile = fitFileName(hist[i].seg)
        /\ GetMetadataFlagValue(RecordHeader(hist[i]).m, FlagDeleted) = hist[i].deleted
        /\ Len(RecordPayload(hist[i])) = hist[i].size
        /\ DigestsRecompute(RecordHeader(hist[i]).m, RecordPayload(hist[i]))

\* four records and a failed write, the last record a tombstone in the second
\* segment
C20_Witness ==
    /\ Len(hist) = 4 /\ nfail = 1 /\ nops = 5
    /\ hist[4].deleted /\ hist[4].seg = 1

(* C21: when the read or the re-put of a live entry fails in the copy phase
   of a compaction cycle, the cycle ends with BackupPath and TmpPath removed
   and with the main store's segment files, index, active segment, append
   offset and record counter as they were before the cycle. *)
C21_FailedCopyLeavesMainUntouched ==
    (ret.op = "Compact" /\ ret.res = "CompactFailed") =>
        /\ cpc = "idle"
        /\ ~disk[BackupDBPath].exists
        /\ ~disk[TmpDBPath].exists
        /\ disk[DBPath].exists
        /\ disk[DBPath].files = pre.files
        /\ index = pre.main.index
        /\ writer = pre.main.writer
        /\ activeLogCount = pre.main.activeLogCount

\* a cycle over a store with a live key gave up after a failed copy
C21_Witness ==
    /\ ret.op = "Compact" /\ ret.res = "CompactFailed" /\ nfail = 1
    /\ LiveKeys(index) # {}
    /\ FLen(disk[DBPath].files[0]) > MetadataSize

(* C22: when a step of the swap phase fails, DBPath is restored from
   BackupPath and the writer is reopened on the original active segment,
   after which Get on every key returns what it returned before the cycle;
   when the restore fails too, the process terminates. *)
C22_FailedSwapRestoresBackup ==
    /\ (ret.op = "Compact" /\ ret.res = "Restored") =>
          /\ up = "up" /\ cpc = "idle"
          /\ disk[DBPath].exists
          /\ disk[DBPath].files = pre.files
          /\ writer = pre.main.writer
          /\ \A k \in Keys : GetNow(k) = pre.get[k]
    /\ (ret.op = "Compact" /\ ret.res = "Fatal") => up = "dead"

\* the swap failed after TmpDBPath had replaced DBPath, in a cycle that had
\* dropped a record, and the store was restored
C22_Witness ==
    /\ ret.op = "Compact" /\ ret.res = "Restored" /\ ncyc = 1
    /\ ~disk[TmpDBPath].exists
    /\ FLen(disk[DBPath].files[0]) > 2 * MetadataSize
    /\ \E k \in Keys : pre.get[k] # NotFound

\* a step of a client thread
ClientStep == thr' # thr

\* the step is a Get reading a segment file of the main store
ReadsSegment ==
    \E t \in Threads :
       /\ thr[t].pc = "looked" /\ thr'[t].pc # "looked"
       /\ thr[t].entry # NoEntry /\ ~thr[t].entry.Deleted

(* C23: a compaction cycle holds the store's lock from before the backup
   until the new state is adopted or the cycle is given up: between those
   points no step of a Put, Delete or Get reads or changes the index, the
   writer or the segment files of the main store. *)
C23_CycleExcludesClients ==
    [][(cpc # "idle" /\ ClientStep) =>
          /\ index' = index
          /\ writer' = writer
          /\ disk' = disk
          /\ ~ReadsSegment]_vars

\* C23 for the index alone
C23_CycleKeepsIndexFromClients ==
    [][(cpc # "idle" /\ ClientStep) => index' = index]_vars

(* C24: every compaction cycle that starts eventually ends (completed,
   skipped, given up or restored) with the lock released, or the process
   terminates; so every Put or Get that waits for the lock eventually
   proceeds. *)
C24_CycleEndsAndClientsProceed ==
    /\ (cpc # "idle") ~> (cpc = "idle")
    /\ \A t \in LockThreads : (thr[t].pc # "idle") ~> (thr[t].pc = "idle")

\* a cycle has completed while a Put waits for the lock
C24_Witness ==
    /\ cpc = "idle" /\ ret.op = "Compact" /\ ret.res = "ok"
    /\ \E t \in LockThreads : thr[t].pc = "written"

(* C25: the sub-store made at TmpPath during a compaction cycle never starts
   a compactor: at any time at most one compactor task exists, and it is the
   main store's. *)
C25_OneCompactorOfMainStore ==
    /\ Cardinality(CompactorTasks) <= 1
    /\ TmpDBPath \notin CompactorTasks
    /\ CompactorTasks \subseteq {DBPath}

\* the sub-store is open at TmpDBPath next to the main store
C25_Witness ==
    /\ up = "up" /\ cpc = "copykeys"
    /\ sub # NoStore /\ sub.dbPath = TmpDBPath
    /\ OpenStores = {DBPath, TmpDBPath}

\* the bytes of the segment files named in S
RECURSIVE BytesOf(_, _)
BytesOf(files, S) ==
    IF S = {} THEN 0
    ELSE LET n == CHOOSE x \in S : TRUE
         IN  FLen(files[n]) + BytesOf(files, S \ {n})

\* the bytes occupied by a directory's segment files
TotalBytes(files) == BytesOf(files, DOMAIN files)

\* a cycle has just completed
CycleCompleted == ret.op = "Compact" /\ ret.res = "ok"

(* C26: when a compaction cycle completes, the segment files of DBPath
   occupy at most as many bytes as they did when the cycle began. *)
C26_CompactionNeverGrows ==
    CycleCompleted => TotalBytes(disk[DBPath].files) <= TotalBytes(pre.files)

\* the same for a cycle that found no TmpDBPath of a crashed earlier cycle:
\* the first cycle of a run
C26_FirstCycleNeverGrows ==
    (CycleCompleted /\ ncyc = 1) =>
        TotalBytes(disk[DBPath].files) <= TotalBytes(pre.files)

\* a completed cycle that freed bytes
C26_Shrunk ==
    CycleCompleted /\ TotalBytes(disk[DBPath].files) < TotalBytes(pre.files)

\* copyDB(DBPath, BackupDBPath) has returned success
BackupCopied == cpc = "copyfiles" /\ todo = {}

(* C28: when copyDB(src, dst) has succeeded, dst holds exactly the segment
   files of src with the same bytes and nothing it held before, src is as it
   was, and this is so again when the copy is run anew over what an earlier,
   interrupted run left in dst. *)
C28_CopyIsExact ==
    BackupCopied =>
        /\ disk[BackupDBPath].exists
        /\ Segs(disk[BackupDBPath]) = Segs(disk[DBPath])
        /\ \A n \in Segs(disk[DBPath]) :
               disk[BackupDBPath].files[n] = disk[DBPath].files[n]
        /\ disk[DBPath].files = pre.files

\* the copy has succeeded over a destination that held other bytes before
C28_Witness ==
    /\ BackupCopied
    /\ pre.stale
    /\ FLen(disk[DBPath].files[0]) > MetadataSize

\* the segments of DBPath that are no longer written to
ArchivedSegs == Segs(disk[DBPath]) \ {ActiveLog(disk[DBPath])}

\* segment n is a sequence of complete records with valid headers: the
\* startup scan reads it to its end
ScansClean(n) == ~readSegment(disk[DBPath].files[n], 0, n, EmptyIndex, 0).err

(* C29: under Puts and Deletes, failed writes, rotations and restarts, with
   nobody else touching the files, every archived segment consists of
   complete valid records only, and no startup fails on an archived
   segment. *)
C29_ArchivedSegmentsScanClean ==
    /\ \A n \in ArchivedSegs : ScansClean(n)
    /\ up # "failed"

\* the part of C29 that holds: a store none of whose writes failed
C29_CleanWithoutFailedWrite ==
    (nfail = 0) => (up # "failed" /\ \A n \in ArchivedSegs : ScansClean(n))

\* a rotation has archived a segment of a store that saw a failed write
C29_ArchivedAfterFailure == nfail > 0 /\ ArchivedSegs # {} /\ up = "up"

\* thread t ends a Get that found the record of its entry corrupt
PurgesAs(t) ==
    /\ thr[t].pc = "looked" /\ thr'[t].pc = "idle"
    /\ thr'[t].last.res.res = "ErrChecksumMismatch"

(* C30: the purge of a Get(k) that found its entry corrupt removes only that
   entry: when a Put(k) or Delete(k) has replaced the entry since the Get
   looked it up, the index keeps the newer entry. *)
C30_PurgeKeepsNewerEntry ==
    [][\A t \in PurgeThreads :
          (/\ PurgesAs(t)
           /\ thr[t].key \in DOMAIN index
           /\ index[thr[t].key] # thr[t].entry) => index' = index]_vars

\* the consequence for later Gets: the purge does not take away a key that a
\* Get beginning now would read without error
C30_PurgeKeepsReadableKey ==
    [][\A t \in PurgeThreads :
          (PurgesAs(t) /\ GetValue(Main, disk, thr[t].key).res = "ok") =>
              Live(index', thr[t].key)]_vars

\* the part of C30 that holds: the entry the Get found corrupt is removed
C30_PurgeRemovesCorruptEntry ==
    [][\A t \in PurgeThreads :
          (/\ PurgesAs(t)
           /\ thr[t].key \in DOMAIN index
           /\ index[thr[t].key] = thr[t].entry) => thr[t].key \notin DOMAIN index']_vars

-----------------------------------------------------------------------------
(* The directory listing of a startup.  A file name is a sequence of
   characters; a segment number is the decimal numeral parsed from the name,
   kept as its digits, so that the 64-bit limits are the real ones. *)

DigitChars == <<"0", "1", "2", "3", "4", "5", "6", "7", "8", "9">>
IsDigit(c) == \E i \in 1..10 : DigitChars[i] = c
DigitVal(c) == (CHOOSE i \in 1..10 : DigitChars[i] = c) - 1

SegmentNamePrefix == <<"s", "e", "g">>
SegmentNameExt == <<".", "l", "o", "g">>

\* segmentFilePattern: ^seg(\d+)\.log$
MatchString(name) ==
    /\ Len(name) > Len(SegmentNamePrefix) + Len(SegmentNameExt)
    /\ SubSeq(name, 1, Len(SegmentNamePrefix)) = SegmentNamePrefix
    /\ SubSeq(name, Len(name) - Len(SegmentNameExt) + 1, Len(name)) = SegmentNameExt
    /\ \A j \in Len(SegmentNamePrefix) + 1 .. Len(name) - Len(SegmentNameExt) :
           IsDigit(name[j])

\* name[len(prefix) : len(name)-len(ext)]
NumStr(name) ==
    SubSeq(name, Len(SegmentNamePrefix) + 1, Len(name) - Len(SegmentNameExt))

\* a numeral without its leading zeros
RECURSIVE StripZeros(_)
StripZeros(d) == IF Len(d) > 1 /\ Head(d) = "0" THEN StripZeros(Tail(d)) ELSE d

\* a < b for two numerals of the same length
RECURSIVE LexLess(_, _)
LexLess(a, b) ==
    IF a = <<>> THEN FALSE
    ELSE IF Head(a) # Head(b) THEN DigitVal(Head(a)) < DigitVal(Head(b))
    ELSE LexLess(Tail(a), Tail(b))

\* a < b for two numerals without leading zeros
DecLess(a, b) == Len(a) < Len(b) \/ (Len(a) = Len(b) /\ LexLess(a, b))

\* 2^64 - 1 and 2^63 - 1
MaxUint64 == <<"1", "8", "4", "4", "6", "7", "4", "4", "0", "7", "3", "7", "0", "9", "5", "5", "1", "6", "1", "5">>
MaxInt64 == <<"9", "2", "2", "3", "3", "7", "2", "0", "3", "6", "8", "5", "4", "7", "7", "5", "8", "0", "7">>

\* strconv.ParseUint(numStr, 10, 64): out of range above 2^64 - 1
ParseUint(s) ==
    [ok |-> ~DecLess(MaxUint64, StripZeros(s)), num |-> StripZeros(s)]

\* int(num) of a uint64: from 2^63 on the value is num - 2^64, negative
ToInt(num) == [neg |-> DecLess(MaxInt64, num), mag |-> num]

\* a < b for two ints made by ToInt
IntLess(a, b) ==
    \/ a.neg /\ ~b.neg
    \/ a.neg = b.neg /\ DecLess(a.mag, b.mag)

\* segmentFile{name, int(num)}
segmentFile(name) == [name |-> name, num |-> ToInt(ParseUint(NumStr(name)).num)]

\* the entries the loop keeps
Matching(entries) == {e \in entries : ~e.isDir /\ MatchString(e.name)}

\* the orders sort.Slice may leave the segments in: no later one less than
\* an earlier one
SortSlice(segs) ==
    {p \in [1..Cardinality(segs) -> segs] :
        /\ \A a, b \in DOMAIN p : a # b => p[a] # p[b]
        /\ \A a, b \in DOMAIN p : a < b => ~IntLess(p[b].num, p[a].num)}

\* the names of the sorted segments
NamesOf(p) == [j \in DOMAIN p |-> p[j].name]

\* getSegmentFiles on the entries of os.ReadDir: the results it may give
ListSegments(entries) ==
    IF \E e \in Matching(entries) : ~ParseUint(NumStr(e.name)).ok
    THEN {[ok |-> FALSE, names |-> <<>>]}
    ELSE {[ok |-> TRUE, names |-> NamesOf(p)] :
             p \in SortSlice({segmentFile(e.name) : e \in Matching(entries)})}

Seg2 == <<"s", "e", "g", "2", ".", "l", "o", "g">>
Seg10 == <<"s", "e", "g", "1", "0", ".", "l", "o", "g">>
Seg02 == <<"s", "e", "g", "0", "2", ".", "l", "o", "g">>
SegMaxInt == <<"s", "e", "g", "9", "2", "2", "3", "3", "7", "2", "0", "3", "6", "8", "5", "4", "7", "7", "5", "8", "0", "7", ".", "l", "o", "g">>
SegMinNeg == <<"s", "e", "g", "9", "2", "2", "3", "3", "7", "2", "0", "3", "6", "8", "5", "4", "7", "7", "5", "8", "0", "8", ".", "l", "o", "g">>
SegMaxUint == <<"s", "e", "g", "1", "8", "4", "4", "6", "7", "4", "4", "0", "7", "3", "7", "0", "9", "5", "5", "1", "6", "1", "5", ".", "l", "o", "g">>
SegOver == <<"s", "e", "g", "1", "8", "4", "4", "6", "7", "4", "4", "0", "7", "3", "7", "0", "9", "5", "5", "1", "6", "1", "6", ".", "l", "o", "g">>
SegNoDigits == <<"s", "e", "g", ".", "l", "o", "g">>
ActiveName == <<"a", "c", "t", "i", "v", "e", ".", "l", "o", "g">>
SegBak == <<"s", "e", "g", "1", ".", "l", "o", "g", ".", "b", "a", "k">>
XSeg == <<"x", "s", "e", "g", "4", ".", "l", "o", "g">>

File(name) == [name |-> name, isDir |-> FALSE]
Dir(name) == [name |-> name, isDir |-> TRUE]

MaxEntries == 3

\* the directory entries a listing is drawn from
EntryPool ==
    {File(Seg2), File(Seg10), File(Seg02), File(SegMaxInt), File(SegMinNeg),
     File(SegMaxUint), File(SegOver), File(SegNoDigits), File(ActiveName),
     File(SegBak), File(XSeg), Dir(<<"s", "e", "g", "3", ".", "l", "o", "g">>)}

Listings == {d \in SUBSET EntryPool : Cardinality(d) <= MaxEntries}

\* pre holds the entries of the directory, ret the result of the listing
InitList ==
    /\ \E o \in {Open(InitDisk)} :
          /\ disk = o.disk
          /\ index = o.st.index
          /\ writer = o.st.writer
          /\ activeLogCount = o.st.activeLogCount
    /\ up = "up"
    /\ mem = [k \in Keys |-> Absent]
    /\ ret = Ret("Open", <<>>, <<>>, "ok", -1, FALSE, NoPrev)
    /\ pre \in Listings
    /\ nops = 0 /\ nfail = 0 /\ cpc = "idle" /\ sub = NoStore /\ todo = {}
    /\ ncyc = 0 /\ thr = Idle /\ hist = Idle

\* the startup lists the directory
List ==
    /\ ret.op = "Open"
    /\ \E r \in ListSegments(pre) :
           ret' = [op |-> "List", ok |-> r.ok, names |-> r.names]
    /\ UNCHANGED <<disk, up, index, writer, activeLogCount, mem, pre, nops, nfail,
                   cpc, sub, todo, ncyc, thr, hist>>

NextList == List

SpecList == InitList /\ [][NextList]_vars

\* the numeric value of a segment name's digits
ValueOf(name) == StripZeros(NumStr(name))

\* a listing has happened, and every segment number in it was below 2^64
Listed == ret.op = "List" /\ \A e \in Matching(pre) : ParseUint(NumStr(e.name)).ok

\* the names of the result
Returned == {ret.names[j] : j \in DOMAIN ret.names}

(* C27: the listing returns exactly the directory's regular files named
   seg<digits>.log, in ascending order of the numeric value of <digits>, for
   every segment number below 2^64. *)
C27_ListIsExactAndAscending ==
    Listed =>
        /\ ret.ok
        /\ Returned = {e.name : e \in Matching(pre)}
        /\ Len(ret.names) = Cardinality(Matching(pre))
        /\ \A a, b \in DOMAIN ret.names :
               a < b => ~DecLess(ValueOf(ret.names[b]), ValueOf(ret.names[a]))

\* the part of C27 about which names are returned
C27_ListIsExact ==
    Listed =>
        /\ ret.ok
        /\ Returned = {e.name : e \in Matching(pre)}
        /\ Len(ret.names) = Cardinality(Matching(pre))

\* the order is the numeric one while every number is below 2^63
C27_AscendingBelowMaxInt ==
    (Listed /\ \A e \in Matching(pre) : ~DecLess(MaxInt64, ValueOf(e.name))) =>
        \A a, b \in DOMAIN ret.names :
            a < b => ~DecLess(ValueOf(ret.names[b]), ValueOf(ret.names[a]))

\* seg2.log is listed before seg10.log
C27_TwoBeforeTen ==
    Listed /\ ret.ok /\ Len(ret.names) >= 2
    /\ \E a, b \in DOMAIN ret.names :
          a < b /\ ret.names[a] = Seg2 /\ ret.names[b] = Seg10

-----------------------------------------------------------------------------
(* Concurrent calls of LogWriter.Write, one WriteAt at a time.  todo holds the
   thread that has lw.mu, pre the calls that returned without error, in the
   order of their return: [hdr, size]. *)

MaxWriteCalls == 3

\* the data of the call of thread t
DataOf(t) == Marshal([Key |-> thr[t].key, Value |-> thr[t].value])

\* a call that goes on without lw.mu
WLock_NoMutex(t, k, v) ==
    /\ thr[t].pc = "idle"
    /\ nops < MaxWriteCalls
    /\ nops' = nops + 1
    /\ todo' = todo \cup {t}
    /\ thr' = [thr EXCEPT ![t] = [IdleThread(thr[t].last) EXCEPT
                                     !.pc = "locked", !.key = k, !.value = v]]
    /\ UNCHANGED <<disk, up, index, writer, activeLogCount, mem, ret, pre, nfail,
                   cpc, sub, ncyc, hist>>

\* lw.mu.Lock()
WLock(t, k, v) ==
    /\ thr[t].pc = "idle"
    /\ todo = {}
    /\ nops < MaxWriteCalls
    /\ nops' = nops + 1
    /\ todo' = {t}
    /\ thr' = [thr EXCEPT ![t] = [IdleThread(thr[t].last) EXCEPT
                                     !.pc = "locked", !.key = k, !.value = v]]
    /\ UNCHANGED <<disk, up, index, writer, activeLogCount, mem, ret, pre, nfail,
                   cpc, sub, ncyc, hist>>

\* the call of thread t returns: the deferred lw.mu.Unlock()
WReturn(t) ==
    /\ todo' = todo \ {t}
    /\ thr' = [thr EXCEPT ![t] = IdleThread(thr[t].last)]

\* the header of the call: metadata from lw.offset, the first WriteAt
WHeaderOf(t, m) ==
    /\ disk' = [disk EXCEPT ![DBPath] =
                    PutFile(@, writer.name,
                            WriteAt(disk[DBPath].files[writer.name], writer.offset,
                                    Serialize(m)))]
    /\ writer' = [writer EXCEPT !.offset = @ + MetadataSize]
    /\ thr' = [thr EXCEPT ![t].pc = "header", ![t].m = m]
    /\ UNCHANGED <<up, index, activeLogCount, mem, ret, pre, nops, nfail, cpc,
                   sub, todo, ncyc, hist>>

WHeader(t) ==
    /\ thr[t].pc = "locked"
    /\ WHeaderOf(t, ComputeChecksum(writer.offset + MetadataSize, Len(DataOf(t)),
                                    ComputeMetadataFlag({}), writer.name, DataOf(t)))

\* the first WriteAt is cut short: the call returns an error
WHeaderFail(t) ==
    /\ thr[t].pc = "locked"
    /\ nfail < MaxFail
    /\ nfail' = nfail + 1
    /\ \E c \in HdrCuts :
          disk' = [disk EXCEPT ![DBPath] =
                      PutFile(@, writer.name,
                              WriteAt(disk[DBPath].files[writer.name], writer.offset,
                                      FTake(Serialize(
                                          ComputeChecksum(writer.offset + MetadataSize,
                                                          Len(DataOf(t)),
                                                          ComputeMetadataFlag({}),
                                                          writer.name, DataOf(t))), c)))]
    /\ WReturn(t)
    /\ UNCHANGED <<up, index, writer, activeLogCount, mem, ret, pre, nops, cpc,
                   sub, ncyc, hist>>

\* the second WriteAt, at valueOffset, and the return
WPayload(t) ==
    /\ thr[t].pc = "header"
    /\ disk' = [disk EXCEPT ![DBPath] =
                    PutFile(@, writer.name,
                            WriteAt(disk[DBPath].files[writer.name], thr[t].m.Offset,
                                    DataSlices(DataOf(t))))]
    /\ writer' = [writer EXCEPT !.offset = @ + Len(DataOf(t))]
    /\ pre' = Append(pre, [hdr |-> thr[t].m.Offset - MetadataSize,
                            size |-> thr[t].m.Size])
    /\ WReturn(t)
    /\ UNCHANGED <<up, index, activeLogCount, mem, ret, nops, nfail, cpc, sub,
                   ncyc, hist>>

\* the second WriteAt is cut short: the offset is rolled back
WPayloadFail(t) ==
    /\ thr[t].pc = "header"
    /\ nfail < MaxFail
    /\ nfail' = nfail + 1
    /\ \E c \in PayCuts(Len(DataOf(t))) :
          disk' = [disk EXCEPT ![DBPath] =
                      PutFile(@, writer.name,
                              WriteAt(disk[DBPath].files[writer.name],
                                      thr[t].m.Offset,
                                      FTake(DataSlices(DataOf(t)), c)))]
    /\ writer' = [writer EXCEPT !.offset = RollbackOffset(@)]
    /\ WReturn(t)
    /\ UNCHANGED <<up, index, activeLogCount, mem, ret, pre, nops, cpc, sub,
                   ncyc, hist>>

WriteCall == \E t \in Threads, k \in Keys, v \in Values : WLock(t, k, v)
WriteHeaderStep == \E t \in Threads : WHeader(t)
WriteHeaderFails == \E t \in Threads : WHeaderFail(t)
WritePayloadStep == \E t \in Threads : WPayload(t)
WritePayloadFails == \E t \in Threads : WPayloadFail(t)

NextWriter ==
    \/ WriteCall \/ WriteHeaderStep \/ WriteHeaderFails
    \/ WritePayloadStep \/ WritePayloadFails

SpecWriter == InitConc /\ [][NextWriter]_vars

-----------------------------------------------------------------------------
(* Reads across a swap: the clients of SpecLock with room for two Puts and a
   Get around one cycle. *)

SPutWrite ==
    /\ WriterOpen
    /\ nops < MaxSwapOps
    /\ \E t \in LockThreads, k \in Keys, v \in DamageValues : TPutWrite(t, k, v)

SDelete ==
    /\ cpc = "idle"
    /\ nops < MaxSwapOps
    /\ \E t \in LockThreads, k \in Keys : TDelete(t, k)

SGetLookup ==
    /\ cpc = "idle"
    /\ nops < MaxSwapOps
    /\ \E t \in LockThreads, k \in Keys : TGetLookup(t, k)

NextSwap ==
    \/ SPutWrite \/ LPutIndex \/ SDelete \/ SGetLookup \/ LGetFetch
    \/ CBegin \/ CBackupClear \/ CBackupCopy \/ CSubStore \/ CCopyKey
    \/ CCloseWriters \/ CRemoveDB \/ CRename \/ CReopen \/ CRemoveBackup

SpecSwap == InitConc /\ [][NextSwap]_vars

\* thread t ends its Get in this step
GetCompletes(t) == thr[t].pc = "looked" /\ thr'[t].pc = "idle"

\* a cycle has replaced DBPath and the index since thread t copied its entry
ReadsAfterSwap(t) ==
    /\ cpc = "idle" /\ ret.op = "Compact" /\ ret.res = "ok"
    /\ thr[t].entry # NoEntry
    /\ thr[t].key \in DOMAIN index
    /\ index[thr[t].key] # thr[t].entry

(* C31: a Get that copied its index entry before a compaction cycle and reads
   the record after the cycle replaced DBPath returns no value but one that a
   Put of its key wrote last, and removes no live key from the adopted
   index. *)
C31_ReadAfterSwapIsHarmless ==
    [][\A t \in LockThreads :
          (GetCompletes(t) /\ ReadsAfterSwap(t)) =>
              /\ thr'[t].last.res.res = "ok" => thr'[t].last.res \in thr[t].allowed
              /\ Live(index, thr[t].key) => Live(index', thr[t].key)]_vars

\* the part of C31 about the value returned
C31_ReadAfterSwapReturnsNoOtherValue ==
    [][\A t \in LockThreads :
          (GetCompletes(t) /\ ReadsAfterSwap(t) /\ thr'[t].last.res.res = "ok") =>
              thr'[t].last.res \in thr[t].allowed]_vars

\* the copy phase of a cycle begins: the sub-store is open and no key has
\* been copied
CopyPhaseStarts == cpc = "copykeys" /\ todo = LiveKeys(index)

(* C32: when the copy phase of a compaction cycle begins, the sub-store's
   index and segments are empty, also when TmpDBPath held files of an earlier
   cycle that crashed; so the database a cycle completes with holds no key
   that is absent from or deleted in the main index. *)
C32_SubStoreStartsEmpty ==
    /\ CopyPhaseStarts =>
          /\ sub.index = EmptyIndex
          /\ \A n \in Segs(disk[TmpDBPath]) : FLen(disk[TmpDBPath].files[n]) = 0
    /\ CycleCompleted => LiveKeys(index) \subseteq LiveKeys(pre.main.index)

\* the same for the first cycle of a run, which finds no TmpDBPath
C32_FirstSubStoreStartsEmpty ==
    ncyc = 1 =>
        /\ CopyPhaseStarts =>
              /\ sub.index = EmptyIndex
              /\ \A n \in Segs(disk[TmpDBPath]) : FLen(disk[TmpDBPath].files[n]) = 0
        /\ CycleCompleted => LiveKeys(index) \subseteq LiveKeys(pre.main.index)

(* C33: when the process is killed inside the startup restore, while
   BackupPath is being copied to DBPath or before BackupPath is deleted, the
   next Open yields a store whose Gets return what the backed-up database
   returned. *)
C33_KilledRestoreStillServesBackup ==
    [][(cpc = "restore" /\ StartupEnds) => ServesBackup]_vars

\* the part of C33 that holds: a kill after the copy of the restore is done
C33_KilledAfterCopyServesBackup ==
    [][(cpc = "restore" /\ todo = {} /\ StartupEnds) => ServesBackup]_vars

\* the store is open on a segment seg0.log that it has just created
FreshStore ==
    /\ up = "up"
    /\ index = EmptyIndex
    /\ Segs(disk[DBPath]) = {0}
    /\ FLen(disk[DBPath].files[0]) = 0
    /\ writer = [name |-> 0, offset |-> 0]
    /\ activeLogCount = 0

\* the same of the next state
FreshStoreNext ==
    /\ up' = "up"
    /\ index' = EmptyIndex
    /\ Segs(disk'[DBPath]) = {0}
    /\ FLen(disk'[DBPath].files[0]) = 0
    /\ writer' = [name |-> 0, offset |-> 0]
    /\ activeLogCount' = 0

(* C34: Open on a missing or an empty DBPath succeeds with an empty index,
   creates seg0.log as the active segment with append offset 0 and record
   counter 0, and a Put that follows is read back by Get. *)
C34_OpenOfEmptyStore ==
    /\ ret.op = "Open" => FreshStore
    /\ [][/\ (StartupEnds /\ disk[DBPath] = EmptyDir) => FreshStoreNext
          /\ (FreshStore /\ nops' = nops + 1 /\ ret'.op = "Put" /\ ret'.res = "ok") =>
                GetValue(MainNext, disk', ret'.key) = Found(ret'.value)]_vars

\* a store opened on a DBPath that exists and holds no file, next to a
\* backup with a record
C34_Witness ==
    /\ ret.op = "Recover" /\ FreshStore
    /\ disk[BackupDBPath].exists
    /\ 0 \in Segs(disk[BackupDBPath])
    /\ FLen(disk[BackupDBPath].files[0]) > MetadataSize

\* the first Put into a store opened on a missing DBPath has returned
C34_WitnessPut ==
    /\ ret.op = "Put" /\ ret.res = "ok" /\ ret.off0 = 0 /\ nops = 1 /\ ncyc = 0
    /\ GetValue(Main, disk, ret.key) = Found(ret.value)

\* the logged appends to segment n that came before the i-th
EarlierIn(n, i) == {j \in 1..(i - 1) : hist[j].seg = n}

\* where the record after the appends in S begins: at the end of the last of
\* them, at 0 when there is none
EndOf(S) == IF S = {} THEN 0 ELSE hist[Max(S)].off + hist[Max(S)].size

(* C35: in a segment written from an empty file, each successful append has
   its header at the end of the record before it (at 0 for the first), its
   payload MetadataSize bytes behind the header, and leaves the append offset
   at the end of its payload; so value offsets grow and records neither
   overlap nor leave gaps, also with failed appends in between. *)
C35_RecordsAreContiguous ==
    /\ \A i \in 1..Len(hist) :
          /\ hist[i].hdr = EndOf(EarlierIn(hist[i].seg, i))
          /\ hist[i].off = hist[i].hdr + MetadataSize
          /\ \A j \in EarlierIn(hist[i].seg, i) : hist[j].off < hist[i].off
          /\ WholeInSegment(hist[i])
    /\ writer.offset = EndOf(EarlierIn(writer.name, Len(hist) + 1))

\* a record was appended behind a failed append and another record
C35_Witness ==
    /\ ret.op \in {"Put", "Delete"} /\ ret.res = "ok"
    /\ ret.prev.res = "WriteFailed"
    /\ ret.off0 > 0
    /\ Len(hist) >= 2 /\ hist[Len(hist)].seg = hist[Len(hist) - 1].seg

\* the bytes of the calls returned so far
RECURSIVE BytesWritten(_)
BytesWritten(s) ==
    IF s = <<>> THEN 0 ELSE MetadataSize + Head(s).size + BytesWritten(Tail(s))

\* the byte ranges of two returned calls do not overlap
Apart(a, b) ==
    \/ a.hdr + MetadataSize + a.size <= b.hdr
    \/ b.hdr + MetadataSize + b.size <= a.hdr

(* C36: concurrent calls of the writer's append are serialized: the calls
   that succeed get distinct byte ranges that do not overlap, each record is
   on disk as written, and when no call is in progress the append offset is
   the initial offset plus MetadataSize + payload size of every successful
   call. *)
C36_AppendsAreSerialized ==
    /\ \A i, j \in 1..Len(pre) : i # j => Apart(pre[i], pre[j])
    /\ \A i \in 1..Len(pre) :
          /\ HeaderAt(disk[DBPath].files[writer.name], pre[i].hdr) # NoMeta
          /\ HeaderAt(disk[DBPath].files[writer.name], pre[i].hdr).Offset
                = pre[i].hdr + MetadataSize
          /\ HeaderAt(disk[DBPath].files[writer.name], pre[i].hdr).Size = pre[i].size
    /\ todo = {} => writer.offset = BytesWritten(pre)

\* three calls have returned without error while a fourth thread waited
C36_Witness ==
    /\ Len(pre) = MaxWriteCalls /\ todo = {}
    /\ pre[1].size # pre[2].size
    /\ writer.offset = BytesWritten(pre)

\* the store has just been opened again
Restarted == ret.op = "Restart" /\ up = "up"

(* C37: after a restart the record counter of the active segment is the
   number of valid records that segment holds, tombstones and superseded
   records included, so that the first rotation after the restart comes
   exactly when the segment holds MaxKeysPerSegment records. *)
C37_CounterCountsActiveRecords ==
    Restarted => activeLogCount = Cardinality(RecordsIn(writer.name))

\* the part of C37 that holds: a store none of whose writes failed
C37_CounterCountsWithoutFailedWrite ==
    (Restarted /\ nfail = 0) => activeLogCount = Cardinality(RecordsIn(writer.name))

\* a restart over an active segment that holds a tombstone and the record it
\* superseded
C37_CountedTombstone ==
    /\ Restarted /\ nfail = 0
    /\ activeLogCount >= 2
    /\ \E k \in DOMAIN index : index[k].Deleted /\ index[k].SegmentFile = writer.name

\* segment numbering across rotations, restarts and cycles: clients write
\* until the store has rotated before and after a cycle
GPut ==
    /\ up = "up" /\ cpc = "idle"
    /\ nops < MaxSegOps
    /\ \E k \in Keys :
       \E r \in {Set(Main, disk, [Key |-> k, Value |-> <<49>>],
                     OkOut(PayloadSize(k, <<49>>)))} :
          /\ Adopt(r.st)
          /\ disk' = r.disk
          /\ ret' = Ret("Put", k, <<49>>, r.res, r.off0, r.rot, NoPrev)
    /\ nops' = nops + 1
    /\ UNCHANGED <<up, mem, nfail, compactVars, threadVars>>

NextSegments ==
    \/ GPut \/ Restart
    \/ CBegin \/ CBackupClear \/ CBackupCopy \/ CSubStore \/ CCopyKey
    \/ CCloseWriters \/ CRemoveDB \/ CRename \/ CReopen \/ CRemoveBackup
    \/ CSwapFail

SpecSegments == Init /\ [][NextSegments]_vars

\* the main store is open and no cycle or startup restore is under way
Settled == up = "up" /\ cpc = "idle"

\* the step added segment n to DBPath of a settled store
Rotates(n) ==
    /\ Settled /\ up' = "up" /\ cpc' = "idle"
    /\ n \in Segs(disk'[DBPath]) \ Segs(disk[DBPath])

(* C38: the segment the writer of an open store appends to is the
   highest-numbered segment file of DBPath, and a rotation creates the
   segment numbered one above the highest; after a rotation, a restart, a
   completed compaction and a restore from the backup. *)
C38_WriterOnHighestSegment ==
    /\ [](Settled => /\ Segs(disk[DBPath]) # {}
                     /\ writer.name = Max(Segs(disk[DBPath])))
    /\ [][\A n \in 0..MaxSegOps :
            Rotates(n) => /\ n = Max(Segs(disk[DBPath])) + 1
                          /\ writer'.name = n]_vars

\* a compaction completed on a store that had rotated, and the store rotated
\* again afterwards
C38_RotatedAfterCompaction ==
    /\ Settled /\ ncyc >= 1 /\ nfail = 0
    /\ ret.op = "Put" /\ ret.rot
    /\ writer.name >= 1

\* the writer of a store restored from the backup after a failed swap
C38_AfterRestore ==
    /\ Settled /\ ret.op = "Compact" /\ ret.res = "Restored"
    /\ writer.name >= 1

\* the number of records the startup scan reads in the segments ns of dir
RECURSIVE RecordCount(_, _)
RecordCount(dir, ns) ==
    IF ns = {} THEN 0
    ELSE readSegment(dir.files[Max(ns)], 0, Max(ns), EmptyIndex, 0).n
         + RecordCount(dir, ns \ {Max(ns)})

\* the index idx holds the keys ks, none of them deleted
OnlyLive(idx, ks) ==
    /\ DOMAIN idx = ks
    /\ \A k \in DOMAIN idx : ~idx[k].Deleted

\* the segment files of dir hold one record for each key of ks and nothing
\* else
OneRecordEach(dir, ks) ==
    /\ ~buildIndex(dir).err
    /\ OnlyLive(buildIndex(dir).index, ks)
    /\ RecordCount(dir, Segs(dir)) = Cardinality(ks)

\* the store after a cycle that began with the live keys ks
Compact(ks) ==
    /\ OnlyLive(index, ks)
    /\ OneRecordEach(disk[DBPath], ks)
    /\ ~disk[BackupDBPath].exists
    /\ ~disk[TmpDBPath].exists

(* C39: when a compaction cycle has completed, the index holds exactly the
   keys that were live when the cycle began and no deleted entry, the segment
   files of DBPath hold exactly one record for each of these keys and no
   tombstone, and neither BackupPath nor TmpPath exists. *)
C39_CompletedCycleIsCompact ==
    CycleCompleted => Compact(LiveKeys(pre.main.index))

\* the same for the first cycle of a run, which finds no TmpDBPath
C39_FirstCycleIsCompact ==
    (CycleCompleted /\ ncyc = 1) => Compact(LiveKeys(pre.main.index))

\* a first cycle has dropped a tombstone and a superseded record
C39_DroppedTombstone ==
    /\ CycleCompleted /\ ncyc = 1
    /\ \E k \in DOMAIN pre.main.index : pre.main.index[k].Deleted
    /\ LiveKeys(pre.main.index) # {}
    /\ TotalBytes(disk[DBPath].files) < TotalBytes(pre.files)

-----------------------------------------------------------------------------
(* Empty values: clients Put the empty string, Delete and Get, the store is
   restarted and compacted *)

EmptyValues == {<<>>, <<49>>}

EPut ==
    /\ nops < MaxEmptyOps
    /\ \E k \in Keys, v \in EmptyValues : Put(k, v, OkOut(PayloadSize(k, v)))

EDel == nops < MaxEmptyOps /\ DelOk

NextEmpty ==
    \/ EPut \/ EDel \/ GetAny \/ Restart
    \/ CBegin \/ CBackupClear \/ CBackupCopy \/ CSubStore \/ CCopyKey
    \/ CCloseWriters \/ CRemoveDB \/ CRename \/ CReopen \/ CRemoveBackup

SpecEmpty == Init /\ [][NextEmpty]_vars

\* the last acknowledged write of key k was a Put of the empty value
PutEmpty(k) == mem[k].state = "put" /\ mem[k].value = <<>>

(* C40: a live record with an empty value and a tombstone carry the same
   payload and differ in bit 0 of the flags only: after Put(k, "") a Get of k
   returns the empty string and not KeyNotFound, before and after a restart,
   and a compaction keeps k; after Delete(k) a Get of k returns KeyNotFound. *)
C40_EmptyValueIsLive ==
    Settled =>
        \A k \in Keys :
           /\ PutEmpty(k) => /\ GetValue(Main, disk, k) = [res |-> "ok", value |-> <<>>]
                             /\ k \in LiveKeys(index)
           /\ mem[k].state = "deleted" => GetValue(Main, disk, k) = NotFound

\* a Get has returned the empty value of a key after a compaction cycle,
\* while the other key is deleted
C40_GotEmptyAfterCompaction ==
    /\ Settled /\ ncyc >= 1
    /\ ret.op = "Get" /\ ret.res = "ok" /\ ret.value = <<>>
    /\ PutEmpty(ret.key)
    /\ \E k \in Keys : mem[k].state = "deleted"

\* the store has been restarted over an empty value and a tombstone
C40_RestartedOverEmpty ==
    /\ Restarted
    /\ \E k \in Keys : PutEmpty(k)
    /\ \E k \in Keys : mem[k].state = "deleted"

====
